---- MODULE Spec2Model ----
(***************************************************************************)
(* Miniworld turn & visibility engine.                                     *)
(*                                                                         *)
(*   TurnManager      (Python prototype/turn_manager.py)                   *)
(*   EventBus         (Python prototype/core/event_bus.py)                 *)
(*   EventDispatcher  (Python prototype/core/event_dispatcher.py)          *)
(*   EventHandler     (Python prototype/event_handler.py) driving          *)
(*   OllamaInterface  (Python prototype/llm_interface.py)                  *)
(*                                                                         *)
(* Each component has its own specification (SpecTM, SpecBus, SpecDisp,    *)
(* SpecStream) over the variables of this module; a specification leaves   *)
(* the variables of the other components at their initial values.          *)
(***************************************************************************)
EXTENDS Integers, Sequences, FiniteSets, TLC

(***************************************************************************)
(* Bounds of the model.                                                    *)
(***************************************************************************)
MaxCost == 3
MaxTU == 3
MaxMem == 2
MaxHistory == 2

Names == {"Alice", "Bob"}
NoName == "None"

EmptyFn == [x \in {} |-> 0]

Max(a, b) == IF a >= b THEN a ELSE b
Min(a, b) == IF a <= b THEN a ELSE b

SeqToSet(s) == {s[i] : i \in 1..Len(s)}

RECURSIVE RemoveFromSeq(_, _)
RemoveFromSeq(s, x) ==
  IF s = <<>> THEN <<>>
  ELSE IF Head(s) = x THEN RemoveFromSeq(Tail(s), x)
       ELSE <<Head(s)>> \o RemoveFromSeq(Tail(s), x)


(***************************************************************************)
(* TurnManager state (turn_manager.py, __init__).                          *)
(*   key_order is the insertion order of the three per-actor dicts; Python *)
(*   dicts iterate in insertion order, and sorted()/min() break ties by    *)
(*   that order.                                                           *)
(*   tm_call records the add_time_units or pass_turn call made by the step *)
(*   just taken (NoCall after any other operation): its name, arguments,   *)
(*   return value (ret; for add_time_units whether the actor was known),   *)
(*   the cost actually added, and whether the actor was first in turn      *)
(*   order when the operation was called.                                  *)
(***************************************************************************)
VARIABLES time_units, last_turn_time, new_memories_count, key_order,
          turn_history, player_name, god_mode, turn_mode, tm_call, tm_op

tmState == <<time_units, last_turn_time, new_memories_count, key_order,
             turn_history, player_name, god_mode, turn_mode>>
tmVars == <<time_units, last_turn_time, new_memories_count, key_order,
            turn_history, player_name, god_mode, turn_mode, tm_call, tm_op>>

TurnModes == {"time_units", "memories"}

Snapshot ==
  [time_units |-> time_units, last_turn_time |-> last_turn_time,
   new_memories_count |-> new_memories_count, key_order |-> key_order,
   turn_history |-> turn_history, player_name |-> player_name,
   god_mode |-> god_mode, turn_mode |-> turn_mode]

NoCall == [op |-> "none", character |-> NoName, arg |-> 0, ret |-> FALSE,
           applied |-> 0, first |-> FALSE]

\* tm_op names the call made by the step just taken where SpecTMOps tells
\* the calls that tm_call does not record apart: the operation, its actor
\* and whether the actor was registered before the call.
NoOp == [op |-> "none", character |-> NoName, known |-> FALSE]
Op(op, character) ==
  [op |-> op, character |-> character,
   known |-> character \in DOMAIN time_units]

(***************************************************************************)
(* Python helpers over a snapshot s of the TurnManager.                    *)
(***************************************************************************)
Keys(s) == SeqToSet(s.key_order)

\* min(d.values()) / max(d.values())
MinVal(f) == CHOOSE v \in {f[k] : k \in DOMAIN f} : \A k \in DOMAIN f : v <= f[k]
MaxVal(f) == CHOOSE v \in {f[k] : k \in DOMAIN f} : \A k \in DOMAIN f : v >= f[k]

\* Tuple comparison of two-element sort keys.
PairLt(a, b) == a[1] < b[1] \/ (a[1] = b[1] /\ a[2] < b[2])

\* sorted(chars, key=...): stable, so equal keys keep their order in chars.
\* key maps each element to its two-element sort key.
StableSort(chars, key) ==
  LET n == Len(chars)
      Before(i, j) == \/ PairLt(key[chars[i]], key[chars[j]])
                      \/ (~PairLt(key[chars[j]], key[chars[i]]) /\ i < j)
      Rank(i) == Cardinality({j \in 1..n : Before(j, i)})
  IN [p \in 1..n |-> chars[CHOOSE i \in 1..n : Rank(i) = p - 1]]

\* min(candidates, key=...): the first element with the least key.
FirstMin(cands, key) ==
  cands[CHOOSE i \in 1..Len(cands) :
          /\ \A j \in 1..Len(cands) : key[cands[i]] <= key[cands[j]]
          /\ \A j \in 1..(i-1) : key[cands[j]] > key[cands[i]]]

\* list comprehension [c for c in chars if c in keep]
Filter(chars, keep) == SelectSeq(chars, LAMBDA c : c \in keep)

\* key=lambda c: (self.time_units[c], self.last_turn_time.get(c, 0))
TuKey(s) == [c \in Keys(s) |-> <<s.time_units[c], s.last_turn_time[c]>>]

\* key=lambda c: (-self.new_memories_count.get(c, 0), self.last_turn_time.get(c, 0))
MemKey(s) ==
  [c \in Keys(s) |-> <<0 - s.new_memories_count[c], s.last_turn_time[c]>>]

GodPinned(s) == s.god_mode /\ s.player_name \in Keys(s)

\* TurnManager._get_turn_order_by_tu
_get_turn_order_by_tu(s) ==
  LET other_chars == Filter(s.key_order, Keys(s) \ {s.player_name})
  IN IF GodPinned(s)
     THEN <<s.player_name>> \o StableSort(other_chars, TuKey(s))
     ELSE StableSort(s.key_order, TuKey(s))

\* TurnManager._get_turn_order_by_memories
_get_turn_order_by_memories(s) ==
  LET other_chars == Filter(s.key_order, Keys(s) \ {s.player_name})
  IN IF GodPinned(s)
     THEN <<s.player_name>> \o StableSort(other_chars, MemKey(s))
     ELSE StableSort(s.key_order, MemKey(s))

\* TurnManager.get_turn_order
get_turn_order(s) ==
  IF s.turn_mode = "memories" THEN _get_turn_order_by_memories(s)
  ELSE _get_turn_order_by_tu(s)

\* _get_next_character_by_tu with the tie-break dropped: the first candidate.
NextByTu_NoTieBreak(s) ==
  LET min_tu == MinVal(s.time_units)
  IN Filter(s.key_order, {c \in Keys(s) : s.time_units[c] = min_tu})[1]

\* TurnManager._get_next_character_by_tu
_get_next_character_by_tu(s) ==
  LET min_tu == MinVal(s.time_units)
      candidates == Filter(s.key_order, {c \in Keys(s) : s.time_units[c] = min_tu})
  IN IF Len(candidates) = 1 THEN candidates[1]
     ELSE FirstMin(candidates, s.last_turn_time)

\* _get_next_character_by_memories with the tie-break dropped: the first
\* candidate.
NextByMemories_NoTieBreak(s) ==
  LET anyNew == \E c \in Keys(s) : s.new_memories_count[c] > 0
      max_memories == MaxVal(s.new_memories_count)
      isMax == {c \in Keys(s) : /\ s.new_memories_count[c] = max_memories
                                 /\ s.new_memories_count[c] > 0}
      candidates == IF anyNew THEN Filter(s.key_order, isMax) ELSE s.key_order
  IN IF GodPinned(s) THEN s.player_name ELSE candidates[1]

\* TurnManager._get_next_character_by_memories
_get_next_character_by_memories(s) ==
  LET anyNew == \E c \in Keys(s) : s.new_memories_count[c] > 0
      max_memories == MaxVal(s.new_memories_count)
      isMax == {c \in Keys(s) : /\ s.new_memories_count[c] = max_memories
                                 /\ s.new_memories_count[c] > 0}
      candidates == IF anyNew THEN Filter(s.key_order, isMax) ELSE s.key_order
  IN IF GodPinned(s) THEN s.player_name
     ELSE IF Len(candidates) = 1 THEN candidates[1]
     ELSE FirstMin(candidates, s.last_turn_time)

\* TurnManager.get_next_character (None when no actor is registered)
get_next_character(s) ==
  IF s.key_order = <<>> THEN NoName
  ELSE IF s.turn_mode = "memories" THEN _get_next_character_by_memories(s)
  ELSE _get_next_character_by_tu(s)

\* The part of a call record that describes the state before the call:
\* whether character was first in get_turn_order with another actor behind it.
WasFirst(character) ==
  LET order == get_turn_order(Snapshot)
  IN Len(order) > 1 /\ order[1] = character

\* normalize_tu subtracting the maximum instead of the minimum
normalize_tu_ByMax(tu) ==
  IF DOMAIN tu = {} THEN tu
  ELSE LET max_tu == MaxVal(tu)
       IN IF max_tu > 0 THEN [c \in DOMAIN tu |-> tu[c] - max_tu] ELSE tu

\* normalize_tu that subtracts nothing
normalize_tu_Skip(tu) == tu

\* TurnManager.normalize_tu, as a function of the time_units dict
normalize_tu(tu) ==
  IF DOMAIN tu = {} THEN tu
  ELSE LET min_tu == MinVal(tu)
       IN IF min_tu > 0 THEN [c \in DOMAIN tu |-> tu[c] - min_tu] ELSE tu

\* EffectiveCost without the floor for AI agents (line 195 dropped).
EffectiveCost_NoFloor(s, character, tu_cost) ==
  LET turn_order == get_turn_order(s)
      first == Len(turn_order) > 1 /\ turn_order[1] = character
      next_tu == s.time_units[turn_order[2]]
      own == s.time_units[character]
  IN IF s.god_mode /\ character = s.player_name THEN 0
     ELSE IF character = s.player_name
          THEN IF first THEN Min(tu_cost, Max(1, next_tu - own + 1)) ELSE tu_cost
          ELSE tu_cost

\* EffectiveCost without the god-mode exemption (line 160 dropped).
EffectiveCost_NoGod(s, character, tu_cost) ==
  LET turn_order == get_turn_order(s)
      first == Len(turn_order) > 1 /\ turn_order[1] = character
      next_tu == s.time_units[turn_order[2]]
      own == s.time_units[character]
  IN IF character = s.player_name
     THEN IF first THEN Min(tu_cost, Max(1, next_tu - own + 1)) ELSE tu_cost
     ELSE LET pass_cost == IF first THEN next_tu - own + 1 ELSE 0
          IN Max(tu_cost, pass_cost)

\* EffectiveCost with the player's cap (lines 173-181) applied to every
\* actor in place of the floor for AI agents.
EffectiveCost_CapForAll(s, character, tu_cost) ==
  LET turn_order == get_turn_order(s)
      first == Len(turn_order) > 1 /\ turn_order[1] = character
      next_tu == s.time_units[turn_order[2]]
      own == s.time_units[character]
  IN IF s.god_mode /\ character = s.player_name THEN 0
     ELSE IF first THEN Min(tu_cost, Max(1, next_tu - own + 1)) ELSE tu_cost

\* EffectiveCost without the cap for the player (lines 173-183 dropped).
EffectiveCost_NoCap(s, character, tu_cost) ==
  LET turn_order == get_turn_order(s)
      first == Len(turn_order) > 1 /\ turn_order[1] = character
      next_tu == s.time_units[turn_order[2]]
      own == s.time_units[character]
  IN IF s.god_mode /\ character = s.player_name THEN 0
     ELSE IF character = s.player_name THEN tu_cost
          ELSE LET pass_cost == IF first THEN next_tu - own + 1 ELSE 0
               IN Max(tu_cost, pass_cost)

\* The cost add_time_units adds to time_units[character] (lines 160-198);
\* 0 stands for the god-mode branch, which adds nothing.
EffectiveCost(s, character, tu_cost) ==
  LET turn_order == get_turn_order(s)
      first == Len(turn_order) > 1 /\ turn_order[1] = character
      next_tu == s.time_units[turn_order[2]]
      own == s.time_units[character]
  IN IF s.god_mode /\ character = s.player_name THEN 0
     ELSE IF character = s.player_name
          THEN IF first THEN Min(tu_cost, Max(1, next_tu - own + 1)) ELSE tu_cost
          ELSE LET pass_cost == IF first THEN next_tu - own + 1 ELSE 0
               IN Max(tu_cost, pass_cost)

(***************************************************************************)
(* TurnManager operations.                                                 *)
(***************************************************************************)
TMInit ==
  /\ time_units = EmptyFn
  /\ last_turn_time = EmptyFn
  /\ new_memories_count = EmptyFn
  /\ key_order = <<>>
  /\ turn_history = <<>>
  /\ player_name = NoName
  /\ god_mode = FALSE
  /\ turn_mode = "time_units"
  /\ tm_call = NoCall
  /\ tm_op = NoOp

Extend(f, k, v) == [x \in (DOMAIN f) \cup {k} |-> IF x = k THEN v ELSE f[x]]
Without(f, k) == [x \in (DOMAIN f) \ {k} |-> f[x]]

\* A registration without the membership test of turn_manager.py:68: it
\* resets the entries of a name that is already registered.
register_character_Overwrite(name, is_player) ==
  /\ tm_call' = NoCall
  /\ time_units' = Extend(time_units, name, IF is_player THEN 0 ELSE 1)
  /\ last_turn_time' = Extend(last_turn_time, name, 0)
  /\ new_memories_count' = Extend(new_memories_count, name, 0)
  /\ key_order' = IF name \in DOMAIN time_units THEN key_order ELSE Append(key_order, name)
  /\ player_name' = IF is_player THEN name ELSE player_name
  /\ UNCHANGED <<turn_history, god_mode, turn_mode>>

\* TurnManager.register_character(name, is_player)
register_character(name, is_player) ==
  /\ tm_call' = NoCall
  /\ IF name \notin DOMAIN time_units
     THEN /\ time_units' = Extend(time_units, name, IF is_player THEN 0 ELSE 1)
          /\ last_turn_time' = Extend(last_turn_time, name, 0)
          /\ new_memories_count' = Extend(new_memories_count, name, 0)
          /\ key_order' = Append(key_order, name)
          /\ player_name' = IF is_player THEN name ELSE player_name
     ELSE UNCHANGED <<time_units, last_turn_time, new_memories_count, key_order,
                      player_name>>
  /\ UNCHANGED <<turn_history, god_mode, turn_mode>>

\* TurnManager.remove_character(name)
remove_character(name) ==
  /\ tm_call' = NoCall
  /\ IF name \in DOMAIN time_units
     THEN /\ time_units' = Without(time_units, name)
          /\ last_turn_time' = Without(last_turn_time, name)
          /\ new_memories_count' = Without(new_memories_count, name)
          /\ key_order' = RemoveFromSeq(key_order, name)
     ELSE UNCHANGED <<time_units, last_turn_time, new_memories_count, key_order>>
  /\ UNCHANGED <<turn_history, player_name, god_mode, turn_mode>>

\* TurnManager.set_god_mode(enabled)
set_god_mode(enabled) ==
  /\ god_mode' = enabled
  /\ tm_call' = NoCall
  /\ UNCHANGED <<time_units, last_turn_time, new_memories_count, key_order,
                 turn_history, player_name, turn_mode>>

\* TurnManager.set_turn_mode(mode)
set_turn_mode(mode) ==
  /\ turn_mode' = IF mode \in TurnModes THEN mode ELSE turn_mode
  /\ tm_call' = NoCall
  /\ UNCHANGED <<time_units, last_turn_time, new_memories_count, key_order,
                 turn_history, player_name, god_mode>>

\* An increment without the membership test of turn_manager.py:151: it
\* starts a perception count for a character that is not registered.
increment_memory_count_NoCheck(character, count) ==
  LET old == IF character \in DOMAIN new_memories_count THEN new_memories_count[character] ELSE 0
  IN /\ tm_call' = NoCall
     /\ old + count <= MaxMem
     /\ new_memories_count' = Extend(new_memories_count, character, old + count)
     /\ UNCHANGED <<time_units, last_turn_time, key_order, turn_history, player_name, god_mode, turn_mode>>

\* TurnManager.increment_memory_count(character, count)
increment_memory_count(character, count) ==
  /\ tm_call' = NoCall
  /\ IF character \in DOMAIN new_memories_count
     THEN /\ new_memories_count[character] + count <= MaxMem
          /\ new_memories_count' =
               [new_memories_count EXCEPT ![character] = @ + count]
     ELSE UNCHANGED new_memories_count
  /\ UNCHANGED <<time_units, last_turn_time, key_order, turn_history,
                 player_name, god_mode, turn_mode>>

\* TurnManager.add_time_units(character, tu_cost), called when the
\* perception counts have become counts; the call is taken while the
\* history stays within max_history and the counter within max_tu
add_time_units_after(character, tu_cost, counts, max_history, max_tu) ==
  IF character \notin DOMAIN time_units
  THEN /\ tm_call' = [op |-> "add_time_units", character |-> character,
                      arg |-> tu_cost, ret |-> FALSE, applied |-> 0,
                      first |-> FALSE]
       /\ new_memories_count' = counts
       /\ UNCHANGED <<time_units, last_turn_time, key_order, turn_history,
                      player_name, god_mode, turn_mode>>
  ELSE LET s == [Snapshot EXCEPT !.new_memories_count = counts]
           order == get_turn_order(s)
           applied == EffectiveCost(s, character, tu_cost)
           charged == [time_units EXCEPT ![character] = @ + applied]
       IN /\ Len(turn_history) < max_history
          /\ charged[character] <= max_tu
          /\ tm_call' = [op |-> "add_time_units", character |-> character,
                         arg |-> tu_cost, ret |-> TRUE, applied |-> applied,
                         first |-> Len(order) > 1 /\ order[1] = character]
          /\ turn_history' = Append(turn_history, character)
          /\ last_turn_time' =
               [last_turn_time EXCEPT ![character] = Len(turn_history) + 1]
          /\ new_memories_count' = [counts EXCEPT ![character] = 0]
          /\ time_units' = normalize_tu(charged)
          /\ UNCHANGED <<key_order, player_name, god_mode, turn_mode>>

\* add_time_units called when no perception has been counted since the
\* state was read
add_time_units_within(character, tu_cost, max_history, max_tu) ==
  add_time_units_after(character, tu_cost, new_memories_count, max_history, max_tu)

\* TurnManager.add_time_units(character, tu_cost)
add_time_units(character, tu_cost) ==
  add_time_units_within(character, tu_cost, MaxHistory, MaxTU)

\* pass_turn stamping the length of the history before the append
\* (lines 342 and 343 swapped)
pass_turn_StaleTime(character) ==
  LET sorted_chars == get_turn_order(Snapshot)
      refused ==
        \/ god_mode /\ character = player_name
        \/ ~(character \in DOMAIN time_units /\ Len(key_order) > 1)
        \/ turn_mode # "memories" /\ sorted_chars[1] # character
      passed == IF turn_mode = "memories" THEN time_units
                ELSE [time_units EXCEPT
                        ![character] = time_units[sorted_chars[2]] + 1]
  IN IF refused
     THEN /\ tm_call' = [op |-> "pass_turn", character |-> character, arg |-> 0,
                         ret |-> FALSE, applied |-> 0, first |-> FALSE]
          /\ UNCHANGED tmState
     ELSE /\ Len(turn_history) < MaxHistory
          /\ passed[character] <= MaxTU
          /\ tm_call' = [op |-> "pass_turn", character |-> character, arg |-> 0,
                         ret |-> TRUE, applied |-> 0,
                         first |-> WasFirst(character)]
          /\ new_memories_count' =
               IF turn_mode = "memories"
               THEN [new_memories_count EXCEPT ![character] = 0]
               ELSE new_memories_count
          /\ turn_history' = Append(turn_history, character)
          /\ last_turn_time' =
               [last_turn_time EXCEPT ![character] = Len(turn_history)]
          /\ time_units' = IF turn_mode = "time_units" THEN normalize_tu(passed)
                           ELSE passed
          /\ UNCHANGED <<key_order, player_name, god_mode, turn_mode>>

\* TurnManager.pass_turn(character)
pass_turn(character) ==
  LET sorted_chars == get_turn_order(Snapshot)
      refused ==
        \/ god_mode /\ character = player_name
        \/ ~(character \in DOMAIN time_units /\ Len(key_order) > 1)
        \/ turn_mode # "memories" /\ sorted_chars[1] # character
      passed == IF turn_mode = "memories" THEN time_units
                ELSE [time_units EXCEPT
                        ![character] = time_units[sorted_chars[2]] + 1]
  IN IF refused
     THEN /\ tm_call' = [op |-> "pass_turn", character |-> character, arg |-> 0,
                         ret |-> FALSE, applied |-> 0, first |-> FALSE]
          /\ UNCHANGED tmState
     ELSE /\ Len(turn_history) < MaxHistory
          /\ passed[character] <= MaxTU
          /\ tm_call' = [op |-> "pass_turn", character |-> character, arg |-> 0,
                         ret |-> TRUE, applied |-> 0,
                         first |-> WasFirst(character)]
          /\ new_memories_count' =
               IF turn_mode = "memories"
               THEN [new_memories_count EXCEPT ![character] = 0]
               ELSE new_memories_count
          /\ turn_history' = Append(turn_history, character)
          /\ last_turn_time' =
               [last_turn_time EXCEPT ![character] = Len(turn_history) + 1]
          /\ time_units' = IF turn_mode = "time_units" THEN normalize_tu(passed)
                           ELSE passed
          /\ UNCHANGED <<key_order, player_name, god_mode, turn_mode>>

(***************************************************************************)
(* World locations and the EventDispatcher (core/event_dispatcher.py).     *)
(*                                                                         *)
(*   Text is a sequence of tokens; the substring tests of the code         *)
(*   ("Failed:" in description, ...) are membership tests on the tokens.   *)
(*   char_location maps each character to the location whose "characters"  *)
(*   list holds it (NoLoc: none); it is the observer_locations dict that   *)
(*   World.notify_location attaches to every event.                        *)
(*   disp_observers is EventDispatcher.observers (character -> callback).  *)
(*   disp_last records the delivery made by the step just taken: the       *)
(*   operation, the event, and the callbacks invoked with their arguments. *)
(***************************************************************************)
Characters == {"Alice", "Bob", "Carol"}
Locations == {"Kitchen", "Garden"}
NoLoc == "None"
Callbacks == {"cb1", "cb2"}
WarnSign == "(warning sign)"
EventTypes == {"speech", "shout", "emote", "observation", "movement",
               "command", "error"}
Actors == {"Bob"}
Plain == <<"hello">>
\* The message and description of an event: plain text, or text holding
\* one of the markers the dispatcher looks for.
Texts ==
  {[message |-> Plain, description |-> <<"something", "happens">>],
   [message |-> <<WarnSign, "oops">>, description |-> <<"something", "happens">>],
   [message |-> <<"You say:", "hello">>, description |-> <<"something", "happens">>],
   [message |-> Plain, description |-> <<"Failed:", "oops">>],
   [message |-> Plain, description |-> <<WarnSign, "oops">>],
   [message |-> Plain, description |-> <<"You say:", "hello">>]}

VARIABLES char_location, disp_observers, disp_last

dispState == <<char_location, disp_observers>>
dispVars == <<char_location, disp_observers, disp_last>>

Contains(text, marker) == \E i \in 1..Len(text) : text[i] = marker

\* dict.get(key, default) for a field that may be missing (NoLoc)
GetOr(value, default) == IF value = NoLoc THEN default ELSE value

\* The event_data dicts handed to dispatch_event.
EventData ==
  {[actor |-> a, location |-> l, message |-> t.message,
    description |-> t.description, origin |-> NoLoc, destination |-> NoLoc,
    action |-> <<"waves">>, via |-> "goes north"] :
     a \in Actors, l \in Locations, t \in Texts}

\* Movement events carry origin and destination (either may be missing);
\* the dispatcher does not read their location field.
MovementData ==
  {[actor |-> a, location |-> "Kitchen", message |-> t.message,
    description |-> t.description, origin |-> o, destination |-> d,
    action |-> <<"waves">>, via |-> "goes north"] :
     a \in Actors, t \in Texts,
     o \in Locations \cup {NoLoc}, d \in Locations \cup {NoLoc}}

NoEvent == [actor |-> NoName, location |-> NoLoc, message |-> <<>>,
            description |-> <<>>, origin |-> NoLoc, destination |-> NoLoc,
            action |-> <<>>, via |-> ""]

NoDispatch == [op |-> "none", event_type |-> "none", event_data |-> NoEvent,
               delivered |-> {}]

is_error(event_data) ==
  \/ Contains(event_data.description, WarnSign)
  \/ Contains(event_data.description, "Failed:")

\* dispatch_event without its error branch (lines 47-49)
observers_to_notify_NoErrorBranch(observers, observer_locations, event_type, event_data) ==
  IF event_type = "shout" THEN DOMAIN observers
  ELSE IF event_type = "movement"
  THEN {c \in DOMAIN observers :
          observer_locations[c] \in {event_data.origin, event_data.destination}}
  ELSE {c \in DOMAIN observers : observer_locations[c] = event_data.location}

\* The list built by dispatch_event before its delivery loop.
observers_to_notify(observers, observer_locations, event_type, event_data) ==
  IF is_error(event_data)
  THEN IF event_data.actor \in DOMAIN observers THEN {event_data.actor} ELSE {}
  ELSE IF event_type = "shout" THEN DOMAIN observers
  ELSE IF event_type = "movement"
  THEN {c \in DOMAIN observers :
          observer_locations[c] \in {event_data.origin, event_data.destination}}
  ELSE {c \in DOMAIN observers : observer_locations[c] = event_data.location}

\* EventDispatcher._format_for_observer; <<>> is the empty string
_format_for_observer(observer_locations, event_type, event_data, observer) ==
  LET actor == event_data.actor
      message == event_data.message
      description == event_data.description
      origin == GetOr(event_data.origin, "somewhere")
      destination == GetOr(event_data.destination, "somewhere")
      from_description ==
        IF Contains(description, "You say:") /\ observer # actor
        THEN <<>> ELSE description
  IN IF Contains(message, WarnSign) /\ observer # actor THEN <<>>
     ELSE IF Contains(message, "You say:") /\ observer # actor THEN <<>>
     ELSE IF event_type = "speech"
     THEN IF observer = actor THEN <<>>
          ELSE <<actor, "says:">> \o message
     ELSE IF event_type = "shout"
     THEN IF observer = actor THEN <<>>
          ELSE <<actor, "shouts from", event_data.location>> \o message
     ELSE IF event_type \in {"emote", "observation"}
     THEN IF observer = actor THEN <<>>
          ELSE <<actor>> \o event_data.action
     ELSE IF event_type = "movement"
     THEN IF observer = actor THEN <<>>
          ELSE IF observer_locations[observer] = origin
          THEN <<actor, event_data.via, "to", destination>>
          ELSE IF observer_locations[observer] = destination
          THEN <<actor, event_data.via, "from", origin>>
          ELSE from_description
     ELSE IF event_type = "command"
     THEN IF observer # actor THEN <<>> ELSE description
     ELSE from_description

\* The callbacks invoked by the delivery loop of dispatch_event.
Deliveries(observers, observer_locations, event_type, event_data) ==
  {[observer |-> o, callback |-> observers[o], event_type |-> event_type,
    text |-> _format_for_observer(observer_locations, event_type, event_data, o)] :
     o \in {c \in observers_to_notify(observers, observer_locations,
                                      event_type, event_data) :
              /\ ~(c = event_data.actor
                   /\ event_type \in {"speech", "shout", "emote"})
              /\ _format_for_observer(observer_locations, event_type,
                                      event_data, c) # <<>>}}

DispInit ==
  /\ char_location = [c \in Characters |->
                        IF c = "Carol" THEN "Garden" ELSE "Kitchen"]
  /\ disp_observers = EmptyFn
  /\ disp_last = NoDispatch

\* EventDispatcher.register(character_name, callback)
dispatcher_register(character_name, callback) ==
  /\ disp_observers' =
       [c \in DOMAIN disp_observers \cup {character_name} |->
          IF c = character_name THEN callback ELSE disp_observers[c]]
  /\ disp_last' = NoDispatch
  /\ UNCHANGED char_location

\* EventDispatcher.unregister(character_name)
dispatcher_unregister(character_name) ==
  /\ disp_observers' =
       [c \in DOMAIN disp_observers \ {character_name} |-> disp_observers[c]]
  /\ disp_last' = NoDispatch
  /\ UNCHANGED char_location

\* World.move_character(character, destination); a destination that is not
\* a location of the world leaves the character in no location
move_character(character, destination) ==
  /\ char_location' =
       [char_location EXCEPT ![character] =
          IF destination \in Locations THEN destination ELSE NoLoc]
  /\ disp_last' = NoDispatch
  /\ UNCHANGED disp_observers

\* EventDispatcher.dispatch_event(event_type, event_data), with the
\* observer_locations that World.notify_location attaches
dispatch_event(event_type, event_data) ==
  /\ disp_last' = [op |-> "dispatch_event", event_type |-> event_type,
                   event_data |-> event_data,
                   delivered |-> Deliveries(disp_observers, char_location,
                                            event_type, event_data)]
  /\ UNCHANGED dispState

\* The failure branch of World.process_command: the error is handed to the
\* actor's own callback, bypassing dispatch_event
process_command_failed(actor, message) ==
  LET error_data == [actor |-> actor, location |-> char_location[actor],
                     message |-> message,
                     description |-> <<actor>> \o message,
                     origin |-> NoLoc, destination |-> NoLoc,
                     action |-> <<>>, via |-> ""]
  IN /\ disp_last' =
          [op |-> "process_command", event_type |-> "error",
           event_data |-> error_data,
           delivered |->
             IF actor \in DOMAIN disp_observers
             THEN {[observer |-> actor, callback |-> disp_observers[actor],
                    event_type |-> "error", text |-> message]}
             ELSE {}]
     /\ UNCHANGED dispState

(***************************************************************************)
(* The EventBus (core/event_bus.py).                                       *)
(*                                                                         *)
(*   now is the wall clock, datetime.now(), in whole seconds.              *)
(*   bus_observers is EventBus.observers: character -> list of callbacks.  *)
(*   bus_recent_events is EventBus.recent_events: fingerprint -> time.     *)
(*   bus_observer_recent_events is EventBus.observer_recent_events:        *)
(*   observer -> list of <<fingerprint, time>>.                            *)
(*   A fingerprint is the tuple the code hashes with md5.                  *)
(*   bus_last records the publication made by the step just taken: its    *)
(*   arguments, the observers selected and the callbacks invoked.          *)
(*   bus_first records the first publication made on the bus, the number   *)
(*   of publications so far (count), and how many times the identical      *)
(*   event (same type, data and prefix-stripped description) has been      *)
(*   published again since (again).                                        *)
(*   observer_locations of every published event is char_location.         *)
(***************************************************************************)
event_expiry == 3
MaxTime == 3
MaxPublish == 2

BusTypes == {"speech", "shout", "movement", "command"}
BusCharacters == {"Alice", "Bob"}
BusCallbacks == {"cb1"}
PrefixToken == "[event] in somewhere:"

VARIABLES now, bus_observers, bus_recent_events, bus_observer_recent_events,
          bus_first, bus_last

busState == <<bus_observers, bus_recent_events, bus_observer_recent_events>>
busVars == <<now, bus_observers, bus_recent_events,
             bus_observer_recent_events, bus_first, bus_last>>

\* A description handed to publish, and the same description carrying the
\* "[type] in location: " prefix of an earlier formatting pass.
BusDescription(actor) == <<actor, "says:", "hello">>
Prefixed(description) == <<PrefixToken>> \o description

\* The data dicts handed to publish; movement events carry origin and
\* destination.
BusData ==
  {[actor |-> a, location |-> l, origin |-> NoLoc, destination |-> NoLoc,
    via |-> "goes north"] : a \in Actors, l \in Locations}

BusMovementData ==
  {[actor |-> a, location |-> o, origin |-> o, destination |-> d,
    via |-> "goes north"] :
     a \in Actors, o \in Locations, d \in Locations}

NoBusData == [actor |-> NoName, location |-> NoLoc, origin |-> NoLoc,
              destination |-> NoLoc, via |-> ""]

NoPublish == [op |-> "none", event_type |-> "none", description |-> <<>>,
              data |-> NoBusData, dropped |-> FALSE, recipients |-> {},
              delivered |-> {}]

NoFirst == [event_type |-> "none", description |-> <<>>, data |-> NoBusData,
            time |-> 0, delivered |-> {}, count |-> 0, again |-> 0]

\* re.sub(r'^\[[^\]]+\](\s+in\s+[^:]+):\s+', '', description)
StripPrefix(description) ==
  IF Len(description) > 0 /\ description[1] = PrefixToken
  THEN Tail(description) ELSE description

\* EventBus.create_fingerprint at clock time t
create_fingerprint(event_type, description, data, t) ==
  <<event_type, data.actor, StripPrefix(description), data.location, t>>

\* EventBus.is_recent_duplicate at clock time t
is_recent_duplicate(recent_events, fingerprint, t) ==
  /\ fingerprint \in DOMAIN recent_events
  /\ t - recent_events[fingerprint] < event_expiry

\* EventBus.cleanup_old_events at clock time t
cleanup_old_events(recent_events, t) ==
  [fp \in {k \in DOMAIN recent_events : t - recent_events[k] < event_expiry}
     |-> recent_events[fp]]

\* The per-observer list after the clean-up made by observer_has_seen_event
UnexpiredRecords(records, t) ==
  SelectSeq(records, LAMBDA r : t - r[2] < event_expiry)

\* EventBus.observer_has_seen_event, evaluated on the cleaned list
observer_has_seen_event(records, fingerprint, t) ==
  \E i \in 1..Len(UnexpiredRecords(records, t)) :
     UnexpiredRecords(records, t)[i][1] = fingerprint

\* The list built by publish before its notification loop.
bus_observers_to_notify(observers, observer_locations, event_type, data) ==
  IF event_type = "shout" THEN DOMAIN observers
  ELSE IF event_type = "movement"
  THEN IF data.origin # NoLoc /\ data.destination # NoLoc
       THEN {o \in DOMAIN observers :
               observer_locations[o] \in {data.origin, data.destination}}
       ELSE {}
  ELSE {o \in DOMAIN observers : observer_locations[o] = data.location}

\* The verb replacements of EventBus.format_for_observer: " says:" and
\* " says" need a preceding space, " goes ", " looks " and " examines " a
\* space on both sides.
Conjugate(token, is_first, is_last) ==
  IF is_first THEN token
  ELSE IF token = "says:" THEN "say:"
  ELSE IF token = "says" THEN "say"
  ELSE IF is_last THEN token
  ELSE IF token = "goes" THEN "go"
  ELSE IF token = "looks" THEN "look"
  ELSE IF token = "examines" THEN "examine"
  ELSE token

\* EventBus.format_for_observer
format_for_observer(observer, description, data) ==
  IF observer = data.actor
  THEN [i \in 1..Len(description) |->
          IF description[i] = data.actor /\ i < Len(description) THEN "You"
          ELSE Conjugate(description[i], i = 1, i = Len(description))]
  ELSE description

\* publish without the choice between the two movement descriptions
FormattedDescription_OriginOnly(observer_locations, observer, event_type, description, data) ==
  IF event_type = "movement"
  THEN <<data.actor, data.via, "to", data.destination>>
  ELSE format_for_observer(observer, description, data)

\* The text publish hands to an observer's callbacks (lines 178-192).
FormattedDescription(observer_locations, observer, event_type, description, data) ==
  IF event_type = "movement"
  THEN IF observer_locations[observer] = data.origin
       THEN <<data.actor, data.via, "to", data.destination>>
       ELSE <<data.actor, data.via, "from", data.origin>>
  ELSE format_for_observer(observer, description, data)

BusInit ==
  /\ now = 0
  /\ bus_observers = EmptyFn
  /\ bus_recent_events = EmptyFn
  /\ bus_observer_recent_events = EmptyFn
  /\ bus_first = NoFirst
  /\ bus_last = NoPublish

\* One second passes on the wall clock.
Tick ==
  /\ now < MaxTime
  /\ now' = now + 1
  /\ bus_last' = NoPublish
  /\ UNCHANGED <<busState, bus_first>>

\* self.observers[character_name] of a defaultdict(list)
CallbacksOf(observers, character_name) ==
  IF character_name \in DOMAIN observers THEN observers[character_name]
  ELSE <<>>

\* EventBus.register(character_name, callback)
bus_register(character_name, callback) ==
  LET callbacks == CallbacksOf(bus_observers, character_name)
  IN /\ bus_observers' =
          [c \in DOMAIN bus_observers \cup {character_name} |->
             IF c # character_name THEN bus_observers[c]
             ELSE IF callback \in SeqToSet(callbacks) THEN callbacks
             ELSE Append(callbacks, callback)]
     /\ bus_last' = NoPublish
     /\ UNCHANGED <<now, bus_recent_events, bus_observer_recent_events,
                    bus_first>>

\* EventBus.unregister(character_name, callback); callback "None" removes
\* the character with all its callbacks
bus_unregister(character_name, callback) ==
  /\ bus_observers' =
       IF character_name \notin DOMAIN bus_observers THEN bus_observers
       ELSE IF callback = "None"
       THEN [c \in DOMAIN bus_observers \ {character_name} |-> bus_observers[c]]
       ELSE [bus_observers EXCEPT ![character_name] = RemoveFromSeq(@, callback)]
  /\ bus_last' = NoPublish
  /\ UNCHANGED <<now, bus_recent_events, bus_observer_recent_events,
                 bus_first>>

\* The body of EventBus.publish once the fingerprint has been computed and
\* compared with the global record (lines 135-199).
PublishCore(event_type, description, data, fingerprint, duplicate) ==
  LET clean == StripPrefix(description)
      recipients ==
        IF duplicate THEN {}
        ELSE bus_observers_to_notify(bus_observers, char_location,
                                     event_type, data)
      records(o) == CallbacksOf(bus_observer_recent_events, o)
      fresh == {o \in recipients :
                  ~observer_has_seen_event(records(o), fingerprint, now)}
      delivered ==
        UNION {{[observer |-> o, callback |-> bus_observers[o][i],
                 event_type |-> event_type,
                 text |-> FormattedDescription(char_location, o, event_type,
                                               clean, data)] :
                  i \in 1..Len(bus_observers[o])} : o \in fresh}
      same == /\ bus_first.event_type = event_type
              /\ StripPrefix(bus_first.description) = clean
              /\ bus_first.data = data
  IN /\ bus_first.count < MaxPublish
     /\ bus_recent_events' =
          IF duplicate THEN bus_recent_events
          ELSE cleanup_old_events(
                 [fp \in DOMAIN bus_recent_events \cup {fingerprint} |->
                    IF fp = fingerprint THEN now ELSE bus_recent_events[fp]],
                 now)
     /\ bus_observer_recent_events' =
          [o \in DOMAIN bus_observer_recent_events \cup recipients |->
             IF o \notin recipients THEN bus_observer_recent_events[o]
             ELSE IF o \in fresh
             THEN Append(UnexpiredRecords(records(o), now), <<fingerprint, now>>)
             ELSE UnexpiredRecords(records(o), now)]
     /\ bus_last' = [op |-> "publish", event_type |-> event_type,
                     description |-> description, data |-> data,
                     dropped |-> duplicate, recipients |-> recipients,
                     delivered |-> delivered]
     /\ bus_first' =
          IF bus_first.count = 0
          THEN [event_type |-> event_type, description |-> description,
                data |-> data, time |-> now, delivered |-> delivered,
                count |-> 1, again |-> 0]
          ELSE [bus_first EXCEPT !.count = @ + 1,
                                 !.again = IF same THEN @ + 1 ELSE @]
     /\ UNCHANGED <<now, bus_observers>>

\* publish with a fingerprint that leaves the clock out and a global record
\* that never expires
publish_NoExpiry(event_type, description, data) ==
  LET fingerprint == create_fingerprint(event_type, description, data, 0)
  IN PublishCore(event_type, description, data, fingerprint,
                 fingerprint \in DOMAIN bus_recent_events)

\* EventBus.publish(event_type, description, data)
publish(event_type, description, data) ==
  LET fingerprint == create_fingerprint(event_type, description, data, now)
  IN PublishCore(event_type, description, data, fingerprint,
                 is_recent_duplicate(bus_recent_events, fingerprint, now))

(***************************************************************************)
(* A minimind turn: EventHandler, OllamaInterface and the Tk event loop.   *)
(* Three kinds of thread take part: the Tk main thread, which runs         *)
(* execute_minimind_turn and the callbacks queued with root.after; the     *)
(* turn thread running run_minimind_turn; and the stream thread running    *)
(* OllamaInterface._stream_response, which calls the handle_response_*     *)
(* callbacks.  Turn i starts turn thread i, which starts stream thread i.  *)
(* Text is a sequence of tokens; every streamed chunk is one token.        *)
(***************************************************************************)
MaxTurns == 2
MaxChunks == 3

Turns == 1..MaxTurns
NoThread == 0

ThinkOpen == "<think>"
ThinkEnd == "</think>"
Newline == "NL"
CommandText == "say hi"
Tokens == {ThinkOpen, ThinkEnd, Newline, CommandText}
StreamChunks == {<<t>> : t \in Tokens}
NoCommand == <<>>

VARIABLES turn_in_progress, stop_streaming, turn_completed,
          complete_response, post_thinking_buffer, thinking_complete,
          command_detected, detected_command, has_early_stopped,
          stream_canceled, stream_completed, active_stream_thread,
          stream_pc, full_response, lines_read, turn_pc, ui_queue,
          turns_started, submitted, failures

guiFlags == <<turn_in_progress, stop_streaming, turn_completed>>
responseState == <<complete_response, post_thinking_buffer, thinking_complete,
                   command_detected, detected_command, has_early_stopped>>
llmState == <<stream_canceled, stream_completed, active_stream_thread>>
streamThreads == <<stream_pc, full_response, lines_read>>
resolutions == <<submitted, failures>>

\* The two mutexes, each holding the thread that has acquired it, and the
\* position of the Tk thread inside the callback it is running
VARIABLES response_lock, thread_lock, ui_pc

lockVars == <<response_lock, thread_lock, ui_pc>>
streamVars == <<guiFlags, responseState, llmState, streamThreads, turn_pc,
                ui_queue, turns_started, resolutions, lockVars>>

\* Threads: the Tk thread, the run_minimind_turn worker of turn i and the
\* _stream_response worker of turn i
UI == <<"ui", 0>>
TurnWorker(i) == <<"turn", i>>
StreamWorker(i) == <<"stream", i>>
Unlocked == <<"none", 0>>

\* Stream thread i returns: its local variables are gone
Finished(i) ==
  /\ stream_pc' = [stream_pc EXCEPT ![i] = "done"]
  /\ full_response' = [full_response EXCEPT ![i] = <<>>]
  /\ lines_read' = [lines_read EXCEPT ![i] = 0]

\* threading.Thread.is_alive() of stream thread i
Alive(i) == stream_pc[i] \in {"posting", "reading", "completing"}

\* Index of the first occurrence of tok in text (0 when absent)
FirstIndex(text, tok) ==
  IF tok \in SeqToSet(text)
  THEN CHOOSE k \in 1..Len(text) :
         text[k] = tok /\ \A j \in 1..(k - 1) : text[j] # tok
  ELSE 0

\* text[k:] of Python, for a 1-based position k of the last dropped token
From(text, k) == SubSeq(text, k + 1, Len(text))

\* str.strip(): the only whitespace token is the newline
RECURSIVE Strip(_)
Strip(text) ==
  IF text = <<>> THEN text
  ELSE IF Head(text) = Newline THEN Strip(Tail(text))
  ELSE IF text[Len(text)] = Newline THEN Strip(SubSeq(text, 1, Len(text) - 1))
  ELSE text

\* str.split('\n')
RECURSIVE Split(_)
Split(text) ==
  LET k == FirstIndex(text, Newline)
  IN IF k = 0 THEN <<text>>
     ELSE <<SubSeq(text, 1, k - 1)>> \o Split(From(text, k))

\* A line that starts with one of 'go to', 'say', 'note', 'recall', 'shout'
IsCommandLine(line) == line # <<>> /\ Head(line) = CommandText

\* The first line that is a command, else NoCommand
FirstCommandLine(lines) ==
  LET hits == {k \in 1..Len(lines) : IsCommandLine(lines[k])}
  IN IF hits = {} THEN NoCommand
     ELSE lines[CHOOSE k \in hits : \A j \in hits : k <= j]

\* The first line that is not empty, else the empty text
FirstNonEmptyLine(lines) ==
  LET hits == {k \in 1..Len(lines) : lines[k] # <<>>}
  IN IF hits = {} THEN <<>>
     ELSE lines[CHOOSE k \in hits : \A j \in hits : k <= j]

\* EventHandler.extract_command_from_buffer: only complete lines are read
extract_command_from_buffer(buffer) ==
  IF buffer = <<>> \/ Newline \notin SeqToSet(buffer) THEN NoCommand
  ELSE LET lines == Split(buffer)
           processable_lines ==
             IF buffer[Len(buffer)] = Newline THEN lines
             ELSE SubSeq(lines, 1, Len(lines) - 1)
       IN FirstCommandLine(processable_lines)

\* re.sub(r'<think>.*?</think>', '', response)
RECURSIVE RemoveThinkBlocks(_)
RemoveThinkBlocks(response) ==
  LET a == FirstIndex(response, ThinkOpen)
      b == IF a = 0 THEN 0 ELSE FirstIndex(From(response, a), ThinkEnd)
  IN IF a = 0 \/ b = 0 THEN response
     ELSE SubSeq(response, 1, a - 1) \o RemoveThinkBlocks(From(response, a + b))

\* EventHandler.clean_llm_response
clean_llm_response(response) ==
  IF detected_command # NoCommand THEN detected_command
  ELSE LET response_cleaned == Strip(RemoveThinkBlocks(response))
           lines == Split(response_cleaned)
           command == FirstCommandLine(lines)
       IN IF command # NoCommand THEN command
          ELSE FirstNonEmptyLine(lines)

\* OllamaInterface.wait_for_completion: the caller either finds the stream
\* finished or gives up after the timeout, cancelling it
wait_for_completion ==
  IF active_stream_thread # NoThread /\ Alive(active_stream_thread)
     /\ ~stream_completed
  THEN [canceled |-> TRUE, active |-> NoThread]
  ELSE [canceled |-> stream_canceled, active |-> active_stream_thread]

\* OllamaInterface.cancel_streaming
cancel_streaming ==
  IF active_stream_thread # NoThread /\ Alive(active_stream_thread)
  THEN [canceled |-> TRUE, active |-> NoThread]
  ELSE [canceled |-> stream_canceled, active |-> active_stream_thread]

\* root.after(delay, callback): the Tk event loop runs callbacks in order
Task(name, turn, action) == [name |-> name, turn |-> turn, action |-> action]

StreamInit ==
  /\ turn_in_progress = FALSE
  /\ stop_streaming = FALSE
  /\ turn_completed = FALSE
  /\ complete_response = <<>>
  /\ post_thinking_buffer = <<>>
  /\ thinking_complete = FALSE
  /\ command_detected = FALSE
  /\ detected_command = NoCommand
  /\ has_early_stopped = FALSE
  /\ stream_canceled = FALSE
  /\ stream_completed = FALSE
  /\ active_stream_thread = NoThread
  /\ stream_pc = [i \in Turns |-> "idle"]
  /\ full_response = [i \in Turns |-> <<>>]
  /\ lines_read = [i \in Turns |-> 0]
  /\ turn_pc = [i \in Turns |-> "idle"]
  /\ ui_queue = <<>>
  /\ turns_started = 0
  /\ submitted = [i \in Turns |-> <<>>]
  /\ failures = [i \in Turns |-> 0]
  /\ response_lock = Unlocked
  /\ thread_lock = Unlocked
  /\ ui_pc = "idle"

\* EventHandler.execute_minimind_turn, when the next character is a minimind
execute_minimind_turn ==
  /\ ~turn_in_progress
  /\ turns_started < MaxTurns
  /\ turns_started' = turns_started + 1
  /\ turn_completed' = FALSE
  /\ turn_in_progress' = TRUE
  /\ stop_streaming' = FALSE
  /\ complete_response' = <<>>
  /\ post_thinking_buffer' = <<>>
  /\ thinking_complete' = FALSE
  /\ command_detected' = FALSE
  /\ detected_command' = NoCommand
  /\ has_early_stopped' = FALSE
  /\ turn_pc' = [turn_pc EXCEPT ![turns_started + 1] = "start"]
  /\ UNCHANGED <<llmState, streamThreads, ui_queue, resolutions>>

\* run_minimind_turn up to OllamaInterface.query_streaming, which starts
\* the stream thread
query_streaming(i) ==
  /\ turn_pc[i] = "start"
  /\ stream_canceled' = FALSE
  /\ stream_completed' = FALSE
  /\ active_stream_thread' = i
  /\ stream_pc' = [stream_pc EXCEPT ![i] = "posting"]
  /\ turn_pc' = [turn_pc EXCEPT ![i] = "polling"]
  /\ UNCHANGED <<guiFlags, responseState, full_response, lines_read,
                 ui_queue, turns_started, resolutions>>

\* run_minimind_turn: building the prompt raises, the except branch runs
run_minimind_turn_except(i) ==
  /\ turn_pc[i] = "start"
  /\ turn_in_progress' = FALSE
  /\ stream_canceled' = cancel_streaming.canceled
  /\ active_stream_thread' = cancel_streaming.active
  /\ turn_completed' = TRUE
  /\ failures' = [failures EXCEPT ![i] = @ + 1]
  /\ turn_pc' = [turn_pc EXCEPT ![i] = "done"]
  /\ UNCHANGED <<stop_streaming, responseState, stream_completed,
                 streamThreads, ui_queue, turns_started, submitted>>

\* run_minimind_turn: the polling loop ends
\* (while turn_in_progress and not stop_streaming.is_set())
poll_exit(i) ==
  /\ turn_pc[i] = "polling"
  /\ ~turn_in_progress \/ stop_streaming
  /\ turn_pc' = [turn_pc EXCEPT ![i] = "stopping"]
  /\ UNCHANGED <<guiFlags, responseState, llmState, streamThreads, ui_queue,
                 turns_started, resolutions>>

\* run_minimind_turn: wait_for_completion(3.0), then cancel_streaming when
\* it timed out (the stream is then no longer the active one)
turn_wait_for_completion(i) ==
  /\ turn_pc[i] = "stopping"
  /\ stream_canceled' = wait_for_completion.canceled
  /\ active_stream_thread' = wait_for_completion.active
  /\ turn_pc' = [turn_pc EXCEPT ![i] = "joining"]
  /\ UNCHANGED <<guiFlags, responseState, stream_completed, streamThreads,
                 ui_queue, turns_started, resolutions>>

\* run_minimind_turn: turn_completed.wait(5.0) returns, either because the
\* event is set or, with no callback left to run, by timeout
turn_completed_wait(i) ==
  /\ turn_pc[i] = "joining"
  /\ turn_completed \/ ui_queue = <<>>
  /\ turn_pc' = [turn_pc EXCEPT ![i] = "cleanup"]
  /\ UNCHANGED <<guiFlags, responseState, llmState, streamThreads, ui_queue,
                 turns_started, resolutions>>

\* run_minimind_turn: the final cleanup; a turn still in progress is
\* forced to end ("Turn processing timed out.")
final_cleanup(i) ==
  /\ turn_pc[i] = "cleanup"
  /\ turn_in_progress' = FALSE
  /\ failures' = IF turn_in_progress THEN [failures EXCEPT ![i] = @ + 1]
                 ELSE failures
  /\ turn_pc' = [turn_pc EXCEPT ![i] = "done"]
  /\ UNCHANGED <<stop_streaming, turn_completed, responseState, llmState,
                 streamThreads, ui_queue, turns_started, submitted>>

\* _stream_response: requests.post answers with status 200
stream_post_ok(i) ==
  /\ stream_pc[i] = "posting"
  /\ stream_pc' = [stream_pc EXCEPT ![i] = "reading"]
  /\ UNCHANGED <<guiFlags, responseState, llmState, full_response, lines_read,
                 turn_pc, ui_queue, turns_started, resolutions>>

\* EventHandler.handle_response_error, called by stream thread i when the
\* request fails, the status is not 200 or reading the next line raises
handle_response_error(i) ==
  /\ stream_pc[i] \in {"posting", "reading"}
  /\ turn_in_progress' = FALSE
  /\ stop_streaming' = TRUE
  /\ turn_completed' = TRUE
  /\ failures' = [failures EXCEPT ![i] = @ + 1]
  /\ stream_completed' = TRUE
  /\ Finished(i)
  /\ UNCHANGED <<responseState, stream_canceled, active_stream_thread,
                 turn_pc, ui_queue, turns_started, submitted>>

\* _stream_response: the response ends without a line marked done
stream_end(i) ==
  /\ stream_pc[i] = "reading"
  /\ stream_completed' = TRUE
  /\ Finished(i)
  /\ UNCHANGED <<guiFlags, responseState, stream_canceled,
                 active_stream_thread, turn_pc, ui_queue, turns_started,
                 resolutions>>

\* _stream_response: a line arrives after the stream was cancelled
stream_break(i) ==
  /\ stream_pc[i] = "reading"
  /\ stream_canceled
  /\ stream_completed' = TRUE
  /\ Finished(i)
  /\ UNCHANGED <<guiFlags, responseState, stream_canceled,
                 active_stream_thread, turn_pc, ui_queue, turns_started,
                 resolutions>>

\* handle_response_chunk without the early return of lines 156-157
handle_response_chunk_NoGuard(i, chunk, done) ==
  LET response == complete_response \o chunk
      end_pos == FirstIndex(response, ThinkEnd)
      thinking == thinking_complete \/ end_pos # 0
      buffer == IF thinking_complete THEN post_thinking_buffer \o chunk
                ELSE IF end_pos # 0 THEN Strip(From(response, end_pos))
                ELSE post_thinking_buffer
      command == IF thinking THEN extract_command_from_buffer(buffer)
                 ELSE NoCommand
  IN /\ stream_pc[i] = "reading"
     /\ ~stream_canceled
     /\ lines_read[i] < MaxChunks
     /\ lines_read' = [lines_read EXCEPT ![i] = @ + 1]
     /\ full_response' = [full_response EXCEPT ![i] = @ \o chunk]
     /\ stream_pc' = [stream_pc EXCEPT ![i] =
                        IF done THEN "completing" ELSE "reading"]
     /\ IF FALSE
        THEN UNCHANGED <<responseState, stop_streaming, stream_canceled,
                         active_stream_thread, ui_queue>>
        ELSE /\ complete_response' = response
             /\ thinking_complete' = thinking
             /\ post_thinking_buffer' = buffer
             /\ IF command # NoCommand
                THEN /\ command_detected' = TRUE
                     /\ detected_command' = command
                     /\ has_early_stopped' = TRUE
                     /\ stop_streaming' = TRUE
                     /\ stream_canceled' = cancel_streaming.canceled
                     /\ active_stream_thread' = cancel_streaming.active
                     /\ ui_queue' = Append(ui_queue,
                          Task("process_command_safely", i, command))
                ELSE UNCHANGED <<command_detected, detected_command,
                                 has_early_stopped, stop_streaming,
                                 stream_canceled, active_stream_thread,
                                 ui_queue>>
     /\ UNCHANGED <<turn_in_progress, turn_completed, stream_completed,
                    turn_pc, turns_started, resolutions>>

\* handle_response_chunk that looks for a command without the
\* thinking_complete test of line 178
handle_response_chunk_NoThinkCheck(i, chunk, done) ==
  LET response == complete_response \o chunk
      end_pos == FirstIndex(response, ThinkEnd)
      thinking == thinking_complete \/ end_pos # 0
      buffer == IF thinking_complete THEN post_thinking_buffer \o chunk
                ELSE IF end_pos # 0 THEN Strip(From(response, end_pos))
                ELSE post_thinking_buffer
      command == IF thinking THEN extract_command_from_buffer(buffer)
                 ELSE extract_command_from_buffer(response)
  IN /\ stream_pc[i] = "reading"
     /\ ~stream_canceled
     /\ lines_read[i] < MaxChunks
     /\ lines_read' = [lines_read EXCEPT ![i] = @ + 1]
     /\ full_response' = [full_response EXCEPT ![i] = @ \o chunk]
     /\ stream_pc' = [stream_pc EXCEPT ![i] =
                        IF done THEN "completing" ELSE "reading"]
     /\ IF command_detected
        THEN UNCHANGED <<responseState, stop_streaming, stream_canceled,
                         active_stream_thread, ui_queue>>
        ELSE /\ complete_response' = response
             /\ thinking_complete' = thinking
             /\ post_thinking_buffer' = buffer
             /\ IF command # NoCommand
                THEN /\ command_detected' = TRUE
                     /\ detected_command' = command
                     /\ has_early_stopped' = TRUE
                     /\ stop_streaming' = TRUE
                     /\ stream_canceled' = cancel_streaming.canceled
                     /\ active_stream_thread' = cancel_streaming.active
                     /\ ui_queue' = Append(ui_queue,
                          Task("process_command_safely", i, command))
                ELSE UNCHANGED <<command_detected, detected_command,
                                 has_early_stopped, stop_streaming,
                                 stream_canceled, active_stream_thread,
                                 ui_queue>>
     /\ UNCHANGED <<turn_in_progress, turn_completed, stream_completed,
                    turn_pc, turns_started, resolutions>>

\* EventHandler.handle_response_chunk, called by stream thread i for a line
\* that carries the chunk; done is the line's 'done' flag
handle_response_chunk(i, chunk, done) ==
  LET response == complete_response \o chunk
      end_pos == FirstIndex(response, ThinkEnd)
      thinking == thinking_complete \/ end_pos # 0
      buffer == IF thinking_complete THEN post_thinking_buffer \o chunk
                ELSE IF end_pos # 0 THEN Strip(From(response, end_pos))
                ELSE post_thinking_buffer
      command == IF thinking THEN extract_command_from_buffer(buffer)
                 ELSE NoCommand
  IN /\ stream_pc[i] = "reading"
     /\ ~stream_canceled
     /\ lines_read[i] < MaxChunks
     /\ lines_read' = [lines_read EXCEPT ![i] = @ + 1]
     /\ full_response' = [full_response EXCEPT ![i] = @ \o chunk]
     /\ stream_pc' = [stream_pc EXCEPT ![i] =
                        IF done THEN "completing" ELSE "reading"]
     /\ IF command_detected
        THEN UNCHANGED <<responseState, stop_streaming, stream_canceled,
                         active_stream_thread, ui_queue>>
        ELSE /\ complete_response' = response
             /\ thinking_complete' = thinking
             /\ post_thinking_buffer' = buffer
             /\ IF command # NoCommand
                THEN /\ command_detected' = TRUE
                     /\ detected_command' = command
                     /\ has_early_stopped' = TRUE
                     /\ stop_streaming' = TRUE
                     /\ stream_canceled' = cancel_streaming.canceled
                     /\ active_stream_thread' = cancel_streaming.active
                     /\ ui_queue' = Append(ui_queue,
                          Task("process_command_safely", i, command))
                ELSE UNCHANGED <<command_detected, detected_command,
                                 has_early_stopped, stop_streaming,
                                 stream_canceled, active_stream_thread,
                                 ui_queue>>
     /\ UNCHANGED <<turn_in_progress, turn_completed, stream_completed,
                    turn_pc, turns_started, resolutions>>

\* handle_response_complete without the has_early_stopped return of lines
\* 238-239 and 251-252
handle_response_complete_NoGuard(i) ==
  LET called == ~stream_canceled
      fallback == IF detected_command = NoCommand
                  THEN <<Task("safe_process_full_response", i,
                              clean_llm_response(full_response[i]))>>
                  ELSE <<>>
  IN /\ stream_pc[i] = "completing"
     /\ complete_response' = IF called THEN full_response[i]
                             ELSE complete_response
     /\ ui_queue' = IF called
                    THEN ui_queue \o fallback
                           \o <<Task("set_stop_streaming", i, NoCommand)>>
                    ELSE ui_queue
     /\ stream_completed' = TRUE
     /\ Finished(i)
     /\ UNCHANGED <<guiFlags, post_thinking_buffer, thinking_complete,
                    command_detected, detected_command, has_early_stopped,
                    stream_canceled, active_stream_thread, turn_pc,
                    turns_started, resolutions>>

\* EventHandler.handle_response_complete, called by stream thread i after
\* the line marked done unless the stream was cancelled
handle_response_complete(i) ==
  LET called == ~stream_canceled /\ ~has_early_stopped
      fallback == IF detected_command = NoCommand
                  THEN <<Task("safe_process_full_response", i,
                              clean_llm_response(full_response[i]))>>
                  ELSE <<>>
  IN /\ stream_pc[i] = "completing"
     /\ complete_response' = IF called THEN full_response[i]
                             ELSE complete_response
     /\ ui_queue' = IF called
                    THEN ui_queue \o fallback
                           \o <<Task("set_stop_streaming", i, NoCommand)>>
                    ELSE ui_queue
     /\ stream_completed' = TRUE
     /\ Finished(i)
     /\ UNCHANGED <<guiFlags, post_thinking_buffer, thinking_complete,
                    command_detected, detected_command, has_early_stopped,
                    stream_canceled, active_stream_thread, turn_pc,
                    turns_started, resolutions>>

\* EventHandler.process_command_safely, run by the Tk loop 500 ms after an
\* early detection; it ends with CommandProcessor.process_minimind_action
process_command_safely ==
  /\ ui_queue # <<>>
  /\ Head(ui_queue).name = "process_command_safely"
  /\ ui_queue' = Tail(ui_queue)
  /\ stream_canceled' = wait_for_completion.canceled
  /\ active_stream_thread' = wait_for_completion.active
  /\ submitted' = [submitted EXCEPT ![Head(ui_queue).turn] =
                     Append(@, Head(ui_queue).action)]
  /\ turn_in_progress' = FALSE
  /\ turn_completed' = TRUE
  /\ UNCHANGED <<stop_streaming, responseState, stream_completed,
                 streamThreads, turn_pc, turns_started, failures>>

\* EventHandler.safe_process_full_response, run by the Tk loop
safe_process_full_response ==
  LET submit == ~has_early_stopped /\ turn_in_progress
  IN /\ ui_queue # <<>>
     /\ Head(ui_queue).name = "safe_process_full_response"
     /\ ui_queue' = Tail(ui_queue)
     /\ submitted' = IF submit
                     THEN [submitted EXCEPT ![Head(ui_queue).turn] =
                             Append(@, Head(ui_queue).action)]
                     ELSE submitted
     /\ turn_in_progress' = IF submit THEN FALSE ELSE turn_in_progress
     /\ turn_completed' = TRUE
     /\ UNCHANGED <<stop_streaming, responseState, llmState, streamThreads,
                    turn_pc, turns_started, failures>>

\* lambda: self.gui.stop_streaming.set(), queued by handle_response_complete
set_stop_streaming ==
  /\ ui_queue # <<>>
  /\ Head(ui_queue).name = "set_stop_streaming"
  /\ ui_queue' = Tail(ui_queue)
  /\ stop_streaming' = TRUE
  /\ UNCHANGED <<turn_in_progress, turn_completed, responseState, llmState,
                 streamThreads, turn_pc, turns_started, resolutions>>

(***************************************************************************)
(* Specifications.                                                         *)
(***************************************************************************)
vars == <<tmVars, dispVars, busVars, streamVars>>

Init == TMInit /\ DispInit /\ BusInit /\ StreamInit

NextTM ==
  \/ \E n \in Names, p \in BOOLEAN :
       register_character(n, p) /\ UNCHANGED <<tm_op, dispVars, busVars, streamVars>>
  \/ \E n \in Names : remove_character(n) /\ UNCHANGED <<tm_op, dispVars, busVars, streamVars>>
  \/ \E b \in BOOLEAN : set_god_mode(b) /\ UNCHANGED <<tm_op, dispVars, busVars, streamVars>>
  \/ \E m \in TurnModes \cup {"other"} :
       set_turn_mode(m) /\ UNCHANGED <<tm_op, dispVars, busVars, streamVars>>
  \/ \E n \in Names, k \in 0..MaxMem :
       increment_memory_count(n, k) /\ UNCHANGED <<tm_op, dispVars, busVars, streamVars>>
  \/ \E n \in Names, k \in 0..MaxCost :
       add_time_units(n, k) /\ UNCHANGED <<tm_op, dispVars, busVars, streamVars>>
  \/ \E n \in Names : pass_turn(n) /\ UNCHANGED <<tm_op, dispVars, busVars, streamVars>>

\* The TurnManager operations again, each call named in tm_op.
NextTMOps ==
  \/ \E n \in Names, p \in BOOLEAN :
       /\ register_character(n, p)
       /\ tm_op' = Op("register_character", n)
       /\ UNCHANGED <<dispVars, busVars, streamVars>>
  \/ \E n \in Names :
       /\ remove_character(n)
       /\ tm_op' = Op("remove_character", n)
       /\ UNCHANGED <<dispVars, busVars, streamVars>>
  \/ \E b \in BOOLEAN :
       /\ set_god_mode(b)
       /\ tm_op' = NoOp
       /\ UNCHANGED <<dispVars, busVars, streamVars>>
  \/ \E m \in TurnModes :
       /\ set_turn_mode(m)
       /\ tm_op' = NoOp
       /\ UNCHANGED <<dispVars, busVars, streamVars>>
  \/ \E n \in Names, k \in {1} :
       /\ increment_memory_count(n, k)
       /\ tm_op' = Op("increment_memory_count", n)
       /\ UNCHANGED <<dispVars, busVars, streamVars>>
  \/ \E n \in Names, k \in {1} :
       /\ add_time_units(n, k)
       /\ tm_op' = NoOp
       /\ UNCHANGED <<dispVars, busVars, streamVars>>
  \/ \E n \in Names :
       /\ pass_turn(n)
       /\ tm_op' = NoOp
       /\ UNCHANGED <<dispVars, busVars, streamVars>>

SpecTMOps == Init /\ [][NextTMOps]_vars

SpecTM == Init /\ [][NextTM]_vars

FailureMessages == {<<WarnSign, "Could", "not", "parse">>,
                    <<"You", "are", "nowhere.">>}

NextDisp ==
  \/ \E c \in Characters, cb \in Callbacks :
       dispatcher_register(c, cb) /\ UNCHANGED <<tmVars, busVars, streamVars>>
  \/ \E c \in Characters : dispatcher_unregister(c) /\ UNCHANGED <<tmVars, busVars, streamVars>>
  \/ \E c \in Characters, d \in Locations \cup {"Attic"} :
       move_character(c, d) /\ UNCHANGED <<tmVars, busVars, streamVars>>
  \/ \E t \in EventTypes \ {"movement"}, d \in EventData :
       dispatch_event(t, d) /\ UNCHANGED <<tmVars, busVars, streamVars>>
  \/ \E d \in MovementData : dispatch_event("movement", d) /\ UNCHANGED <<tmVars, busVars, streamVars>>
  \/ \E c \in Actors, m \in FailureMessages :
       process_command_failed(c, m) /\ UNCHANGED <<tmVars, busVars, streamVars>>

SpecDisp == Init /\ [][NextDisp]_vars

NextBus ==
  \/ Tick /\ UNCHANGED <<tmVars, dispVars, streamVars>>
  \/ \E c \in BusCharacters, cb \in BusCallbacks :
       bus_register(c, cb) /\ UNCHANGED <<tmVars, dispVars, streamVars>>
  \/ \E c \in BusCharacters, cb \in BusCallbacks \cup {"None"} :
       bus_unregister(c, cb) /\ UNCHANGED <<tmVars, dispVars, streamVars>>
  \/ \E t \in BusTypes \ {"movement"}, d \in BusData :
       publish(t, BusDescription(d.actor), d) /\ UNCHANGED <<tmVars, dispVars, streamVars>>
  \/ \E d \in BusMovementData :
       publish("movement", BusDescription(d.actor), d)
       /\ UNCHANGED <<tmVars, dispVars, streamVars>>

\* The bus under every event type, one description per event.
SpecBus == Init /\ [][NextBus]_vars

NextBusDedup ==
  \/ Tick /\ UNCHANGED <<tmVars, dispVars, streamVars>>
  \/ \E c \in BusCharacters, cb \in BusCallbacks :
       bus_register(c, cb) /\ UNCHANGED <<tmVars, dispVars, streamVars>>
  \/ \E c \in BusCharacters, cb \in BusCallbacks \cup {"None"} :
       bus_unregister(c, cb) /\ UNCHANGED <<tmVars, dispVars, streamVars>>
  \/ \E d \in BusData :
       \E text \in {BusDescription(d.actor), Prefixed(BusDescription(d.actor))} :
          publish("speech", text, d) /\ UNCHANGED <<tmVars, dispVars, streamVars>>

\* The bus under repeated publication of speech events, with and without
\* the description prefix that the fingerprint strips.
SpecBusDedup == Init /\ [][NextBusDedup]_vars

NextStream ==
  \/ execute_minimind_turn /\ UNCHANGED <<tmVars, dispVars, busVars, lockVars>>
  \/ \E i \in Turns : query_streaming(i) /\ UNCHANGED <<tmVars, dispVars, busVars, lockVars>>
  \/ \E i \in Turns : run_minimind_turn_except(i) /\ UNCHANGED <<tmVars, dispVars, busVars, lockVars>>
  \/ \E i \in Turns : poll_exit(i) /\ UNCHANGED <<tmVars, dispVars, busVars, lockVars>>
  \/ \E i \in Turns : turn_wait_for_completion(i) /\ UNCHANGED <<tmVars, dispVars, busVars, lockVars>>
  \/ \E i \in Turns : turn_completed_wait(i) /\ UNCHANGED <<tmVars, dispVars, busVars, lockVars>>
  \/ \E i \in Turns : final_cleanup(i) /\ UNCHANGED <<tmVars, dispVars, busVars, lockVars>>
  \/ \E i \in Turns : stream_post_ok(i) /\ UNCHANGED <<tmVars, dispVars, busVars, lockVars>>
  \/ \E i \in Turns : handle_response_error(i) /\ UNCHANGED <<tmVars, dispVars, busVars, lockVars>>
  \/ \E i \in Turns : stream_end(i) /\ UNCHANGED <<tmVars, dispVars, busVars, lockVars>>
  \/ \E i \in Turns : stream_break(i) /\ UNCHANGED <<tmVars, dispVars, busVars, lockVars>>
  \/ \E i \in Turns, chunk \in StreamChunks, done \in BOOLEAN :
       handle_response_chunk(i, chunk, done) /\ UNCHANGED <<tmVars, dispVars, busVars, lockVars>>
  \/ \E i \in Turns : handle_response_chunk(i, <<>>, TRUE) /\ UNCHANGED <<tmVars, dispVars, busVars, lockVars>>
  \/ \E i \in Turns : handle_response_complete(i) /\ UNCHANGED <<tmVars, dispVars, busVars, lockVars>>
  \/ process_command_safely /\ UNCHANGED <<tmVars, dispVars, busVars, lockVars>>
  \/ safe_process_full_response /\ UNCHANGED <<tmVars, dispVars, busVars, lockVars>>
  \/ set_stop_streaming /\ UNCHANGED <<tmVars, dispVars, busVars, lockVars>>

SpecStream == Init /\ [][NextStream]_vars

(***************************************************************************)
(* Properties of the TurnManager.                                          *)
(***************************************************************************)
\* The last step was add_time_units on a registered actor.
Charged == tm_call'.op = "add_time_units" /\ tm_call'.ret

\* The actor of the last step is privileged: the player while god mode is on.
Privileged(s, c) == s.god_mode /\ c = s.player_name

\* C2 precondition: time_units mode, at least two actors, raw cost >= 1, and a
\* non-privileged actor that is first in get_turn_order is charged.
C2_Case ==
  /\ Charged
  /\ turn_mode = "time_units"
  /\ Len(key_order) >= 2
  /\ tm_call'.arg >= 1
  /\ ~Privileged(Snapshot, tm_call'.character)
  /\ get_turn_order(Snapshot)[1] = tm_call'.character

C2_Effect ==
  LET c == tm_call'.character
      second == get_turn_order(Snapshot)[2]
  IN /\ get_turn_order(Snapshot')[1] # c
     /\ time_units[c] + tm_call'.applied > time_units[second]

\* C2 (as claimed): in time_units mode with at least two actors, whenever
\* add_time_units (raw cost >= 1) is applied for a non-privileged actor that is
\* first in get_turn_order - the player with god mode off included - that actor
\* is not first afterwards and its post-cost counter strictly exceeds the
\* counter of the actor that was second before the call.
C2_AnyNonPrivileged == [][C2_Case => C2_Effect]_vars

\* C2 (amended): the same, for every actor other than the player.
C2_AntiStarvation ==
  [][(C2_Case /\ tm_call'.character # player_name) => C2_Effect]_vars

\* C2 witness: an AI actor that was first was charged more than its raw cost.
C2_Witness ==
  /\ tm_call.op = "add_time_units" /\ tm_call.first
  /\ tm_call.character # player_name
  /\ turn_mode = "time_units"
  /\ tm_call.arg >= 1 /\ tm_call.applied > tm_call.arg

\* Candidates of get_next_character for the active mode.
Extremal(s) ==
  IF s.turn_mode = "memories"
  THEN IF \E c \in Keys(s) : s.new_memories_count[c] > 0
       THEN {c \in Keys(s) : \A d \in Keys(s) :
                s.new_memories_count[c] >= s.new_memories_count[d]}
       ELSE Keys(s)
  ELSE {c \in Keys(s) : \A d \in Keys(s) : s.time_units[c] <= s.time_units[d]}

\* C3: with at least one actor and no privileged actor, get_next_character
\* returns an actor with the extremal counter for the active mode (minimum
\* time_units; maximum positive new_memories_count, or anyone when all counts
\* are 0), and one with the lowest last_turn_time among those.
C3_NextIsExtremal ==
  (key_order # <<>> /\ ~GodPinned(Snapshot)) =>
     LET n == get_next_character(Snapshot)
     IN /\ n \in Extremal(Snapshot)
        /\ \A d \in Extremal(Snapshot) : last_turn_time[n] <= last_turn_time[d]

\* C3 witness: two actors tie on the counter of the active mode and the one
\* registered first acted more recently.
C3_Witness ==
  /\ Len(key_order) = 2 /\ ~GodPinned(Snapshot)
  /\ Cardinality(Extremal(Snapshot)) = 2
  /\ last_turn_time[key_order[1]] > last_turn_time[key_order[2]]
  /\ get_next_character(Snapshot) = key_order[2]

\* C4 (as claimed): whenever god mode is on and the player is registered,
\* get_next_character() and get_turn_order()[0] both equal the player, in
\* either turn mode.
C4_PlayerAlwaysNext ==
  GodPinned(Snapshot) =>
     /\ get_next_character(Snapshot) = player_name
     /\ get_turn_order(Snapshot)[1] = player_name

\* C5 precondition: add_time_units on the registered player with god mode on.
C5_Case == Charged /\ Privileged(Snapshot, tm_call'.character)

\* C5 (as claimed): with god mode on, add_time_units(player, cost) leaves the
\* player's time_units counter exactly unchanged.
C5_CounterUnchanged ==
  [][C5_Case => time_units'[player_name] = time_units[player_name]]_vars

\* C5 (amended): with god mode on, add_time_units(player, cost) adds nothing to
\* the player's counter: every counter, the player's included, only loses the
\* minimum counter of before the call (normalize_tu), so the counters are
\* exactly unchanged when that minimum is 0; besides that only the player's
\* last_turn_time, the turn history and the player's perception count change.
C5_NoCostInGodMode ==
  [][C5_Case =>
       LET m == MinVal(time_units)
       IN /\ tm_call'.applied = 0
          /\ \A c \in DOMAIN time_units : time_units'[c] = time_units[c] - m
          /\ DOMAIN time_units' = DOMAIN time_units
          /\ turn_history' = Append(turn_history, player_name)
          /\ last_turn_time' =
               [last_turn_time EXCEPT ![player_name] = Len(turn_history')]
          /\ new_memories_count' = [new_memories_count EXCEPT ![player_name] = 0]
          /\ UNCHANGED <<key_order, player_name, god_mode, turn_mode>>]_vars

\* C5 witness: the privileged player was charged a positive raw cost.
C5_Witness ==
  /\ tm_call.op = "add_time_units" /\ tm_call.ret
  /\ Privileged(Snapshot, tm_call.character)
  /\ tm_call.arg > 0
  /\ Len(key_order) = 2

(***************************************************************************)
(* Properties of the EventDispatcher.                                      *)
(***************************************************************************)
\* The step just taken notified observers of an event.
Dispatched == disp_last.op = "dispatch_event"

\* The observers whose callback was invoked by the step just taken.
Notified == {d.observer : d \in disp_last.delivered}

\* Registered observers other than the event's actor at the event's location.
Bystanders ==
  {c \in DOMAIN disp_observers :
     /\ c # disp_last.event_data.actor
     /\ char_location[c] = disp_last.event_data.location}

\* The event just delivered is a failure: either the failure branch of
\* World.process_command produced it, or dispatch_event classified it as an
\* error.
ErrorEvent ==
  \/ disp_last.op = "process_command"
  \/ Dispatched /\ is_error(disp_last.event_data)

\* C8: an error event is delivered to no observer other than its own actor,
\* under every event type and wherever the other observers are.
C8_ErrorsOnlyToActor ==
  ErrorEvent => Notified \subseteq {disp_last.event_data.actor}

\* An error dispatched under a broadcast type reached its actor while a
\* bystander at the same location and an observer elsewhere were registered.
C8_Witness ==
  /\ Dispatched /\ is_error(disp_last.event_data)
  /\ disp_last.event_type = "command"
  /\ Notified = {disp_last.event_data.actor}
  /\ Bystanders # {}
  /\ \E c \in DOMAIN disp_observers :
       char_location[c] # disp_last.event_data.location

\* C10: a Speech, Emote or Observation event that is not an error fires the
\* callbacks of exactly the registered observers at event.location, minus
\* the acting actor.
C10_LocalExactlyBystanders ==
  (/\ Dispatched
   /\ disp_last.event_type \in {"speech", "emote", "observation"}
   /\ ~is_error(disp_last.event_data))
  => Notified = Bystanders

(***************************************************************************)
(* Properties of the EventBus.                                             *)
(***************************************************************************)
\* The step just taken was a call of EventBus.publish.
Published == bus_last.op = "publish"

\* The event just published is identical to the first one published on the
\* bus: same type, actor, location and prefix-stripped description.
SameAsFirst ==
  /\ Published
  /\ bus_first.count >= 2
  /\ bus_last.event_type = bus_first.event_type
  /\ bus_last.data = bus_first.data
  /\ StripPrefix(bus_last.description) = StripPrefix(bus_first.description)

\* The callbacks that the router of the specification would invoke for the
\* event just published: those of every registered observer selected by
\* event type and location.
ExpectedCallbacks ==
  LET recipients ==
        IF bus_last.event_type = "shout" THEN DOMAIN bus_observers
        ELSE IF bus_last.event_type = "movement"
        THEN {o \in DOMAIN bus_observers :
                char_location[o] \in {bus_last.data.origin,
                                      bus_last.data.destination}}
        ELSE {o \in DOMAIN bus_observers :
                char_location[o] = bus_last.data.location}
  IN UNION {{<<o, bus_observers[o][i]>> : i \in 1..Len(bus_observers[o])} :
              o \in recipients}

InvokedCallbacks(delivered) == {<<d.observer, d.callback>> : d \in delivered}

\* C6: when the identical event is published again less than event_expiry
\* seconds after its first publication, no callback that was invoked for
\* the first publication is invoked again.
C6_AtMostOnceWithinExpiry ==
  (SameAsFirst /\ now - bus_first.time < event_expiry)
  => InvokedCallbacks(bus_last.delivered)
       \cap InvokedCallbacks(bus_first.delivered) = {}

\* C7: when the identical event is published for the second time and
\* event_expiry seconds or more have passed since its first publication,
\* every callback of every recipient is invoked again.
C7_RedeliveredAfterExpiry ==
  (SameAsFirst /\ bus_first.again = 1
   /\ now - bus_first.time >= event_expiry)
  => ExpectedCallbacks \subseteq InvokedCallbacks(bus_last.delivered)

\* The second publication of an event came after the expiry window and
\* reached a callback that the first publication had reached too.
C7_Witness ==
  /\ SameAsFirst /\ bus_first.again = 1
  /\ now - bus_first.time >= event_expiry
  /\ InvokedCallbacks(bus_last.delivered)
       \cap InvokedCallbacks(bus_first.delivered) # {}

\* C9: for an event of type command, no callback of an observer other than
\* the acting actor is invoked.
C9_CommandOnlyToActor ==
  (Published /\ bus_last.event_type = "command")
  => \A d \in bus_last.delivered : d.observer = bus_last.data.actor

(***************************************************************************)
(* Properties of a minimind turn (SpecStream).                             *)
(***************************************************************************)
\* How often turn i has been resolved: submissions to
\* CommandProcessor.process_minimind_action plus failure signals
Resolutions(i) == Len(submitted[i]) + failures[i]

\* Nothing is left that could still run for turn i: its stream thread has
\* returned, none of its callbacks is queued, and its turn thread has
\* exited or polls flags that no thread or callback is left to change
TurnOver(i) ==
  /\ i <= turns_started
  /\ \A j \in Turns : ~Alive(j)
  /\ ui_queue = <<>>
  /\ \/ turn_pc[i] = "done"
     \/ /\ turn_pc[i] = "polling"
        /\ turn_in_progress /\ ~stop_streaming
        /\ \A j \in Turns : turn_pc[j] \in {"idle", "polling", "done"}

\* C1: every turn started by execute_minimind_turn is resolved exactly
\* once, under every interleaving of the stream callbacks: never twice
\* (one submission, or one failure signal, and not both), and never zero
\* times once nothing is left to run for the turn.
C1_ResolvedExactlyOnce ==
  \A i \in Turns :
     /\ Resolutions(i) <= 1
     /\ TurnOver(i) => Resolutions(i) = 1

(***************************************************************************)
(* Properties shared by the two registries.                                *)
(***************************************************************************)
EchoTypes == {"speech", "shout", "emote", "observation"}

\* C11: the callback of the acting actor is never invoked for a Speech,
\* Shout, Emote or Observation event that the actor caused, neither by
\* EventDispatcher.dispatch_event nor by EventBus.publish.
C11_NoSelfEcho ==
  /\ (Dispatched /\ disp_last.event_type \in EchoTypes)
       => disp_last.event_data.actor \notin Notified
  /\ (Published /\ bus_last.event_type \in EchoTypes)
       => \A d \in bus_last.delivered : d.observer # bus_last.data.actor

\* The step just taken dispatched a Movement event that carries both an
\* origin and a destination and that dispatch_event did not classify as an
\* error.
MovementDispatched ==
  /\ Dispatched
  /\ disp_last.event_type = "movement"
  /\ ~is_error(disp_last.event_data)
  /\ disp_last.event_data.origin \in Locations
  /\ disp_last.event_data.destination \in Locations

\* Registered observers located at the origin or the destination of the
\* event just dispatched.
AtOriginOrDestination ==
  {c \in DOMAIN disp_observers :
     char_location[c] \in {disp_last.event_data.origin,
                           disp_last.event_data.destination}}

\* C12: a Movement event fires the callbacks of exactly the registered
\* actors located at its origin or its destination, the moving actor
\* included, and of no actor located anywhere else.
C12_MovementRecipients ==
  MovementDispatched => Notified = AtOriginOrDestination

(***************************************************************************)
(* Movement events through both registries (SpecMove).                     *)
(***************************************************************************)
\* Movement events whose message and description carry no marker
PlainMovementData ==
  {d \in MovementData :
     d.message = Plain /\ d.description = <<"something", "happens">>}

NextMove ==
  \/ dispatcher_register("Alice", "cb1")
       /\ UNCHANGED <<tmVars, busVars, streamVars>>
  \/ \E d \in Locations \cup {"Attic"} :
       move_character("Alice", d)
       /\ bus_last' = NoPublish
       /\ UNCHANGED <<tmVars, now, busState, bus_first, streamVars>>
  \/ \E d \in PlainMovementData :
       dispatch_event("movement", d) /\ UNCHANGED <<tmVars, busVars, streamVars>>
  \/ \E c \in BusCharacters, cb \in BusCallbacks :
       bus_register(c, cb)
       /\ disp_last' = NoDispatch
       /\ UNCHANGED <<tmVars, dispState, streamVars>>
  \/ \E d \in BusMovementData :
       publish("movement", BusDescription(d.actor), d)
       /\ disp_last' = NoDispatch
       /\ UNCHANGED <<tmVars, dispState, streamVars>>

SpecMove == Init /\ [][NextMove]_vars

\* The two wordings of a Movement event; an absent origin or destination
\* is shown as "somewhere"
MovedTo(data) ==
  <<data.actor, data.via, "to", GetOr(data.destination, "somewhere")>>
MovedFrom(data) ==
  <<data.actor, data.via, "from", GetOr(data.origin, "somewhere")>>

\* The wording required for a recipient at location: the origin wording at
\* the origin, the destination wording at the destination
RightWording(text, location, data) ==
  /\ location = data.origin => text = MovedTo(data)
  /\ (location = data.destination /\ location # data.origin)
       => text = MovedFrom(data)
  /\ location \notin {data.origin, data.destination}
       => text \notin {MovedTo(data), MovedFrom(data)}

Passing == tm_call'.op = "pass_turn"

\* c is first in get_turn_order before the step
IsFirst(c) ==
  LET order == get_turn_order(Snapshot)
  IN Len(order) >= 1 /\ order[1] = c

\* C14: pass_turn(actor) returns False and changes no time_units value, no
\* new_memories_count value, no last_turn_time and not the turn history
\* whenever actor is not first in get_turn_order or is the player while god
\* mode is on, in time_units mode and in memories mode alike.
C14_RefusedPassChangesNothing ==
  [][(/\ Passing
      /\ ~IsFirst(tm_call'.character)
           \/ Privileged(Snapshot, tm_call'.character))
     => (/\ ~tm_call'.ret
         /\ UNCHANGED <<time_units, new_memories_count, last_turn_time,
                        turn_history>>)]_vars

\* C15 precondition: with at least two actors, the non-privileged actor
\* that is first in get_turn_order calls pass_turn.
C15_Case ==
  /\ Passing
  /\ Len(key_order) >= 2
  /\ IsFirst(tm_call'.character)
  /\ ~Privileged(Snapshot, tm_call'.character)

\* Every perception count is 0 in snapshot s
AllCountsZero(s) == \A c \in Keys(s) : s.new_memories_count[c] = 0

C15_Effect ==
  LET c == tm_call'.character
      second == get_turn_order(Snapshot)[2]
      next == get_next_character(Snapshot')
  IN /\ tm_call'.ret
     /\ turn_mode = "time_units" =>
          /\ time_units' = normalize_tu(
               [time_units EXCEPT ![c] = time_units[second] + 1])
          /\ get_turn_order(Snapshot')[1] # c
     /\ turn_mode = "memories" =>
          /\ new_memories_count'[c] = 0
          /\ AllCountsZero(Snapshot') =>
               /\ next # c
               /\ \A d \in Keys(Snapshot') :
                    last_turn_time'[next] <= last_turn_time'[d]

\* C15: with at least two registered actors, pass_turn by the
\* non-privileged actor that is first in get_turn_order returns True; in
\* time_units mode its counter is set to the second actor's counter + 1
\* before renormalization and it is no longer first; in memories mode its
\* perception count becomes 0 and, when all counts are then 0,
\* get_next_character returns the actor with the smallest last_turn_time,
\* which is not the passer.
C15_PassYieldsTurn == [][C15_Case => C15_Effect]_vars

\* In memories mode the actor that was first passed, and every perception
\* count is 0 afterwards.
C15_Witness ==
  /\ tm_call.op = "pass_turn" /\ tm_call.ret /\ tm_call.first
  /\ turn_mode = "memories"
  /\ Len(key_order) >= 2
  /\ AllCountsZero(Snapshot)
  /\ ~Privileged(Snapshot, tm_call.character)

\* C16: in every state reachable by register_character, remove_character,
\* add_time_units (raw cost >= 0), increment_memory_count (n >= 0),
\* pass_turn, set_turn_mode and set_god_mode, every time_units counter and
\* every new_memories_count counter is >= 0.
C16_CountersNonNegative ==
  /\ \A c \in DOMAIN time_units : time_units[c] >= 0
  /\ \A c \in DOMAIN new_memories_count : new_memories_count[c] >= 0

\* An actor has just been charged and the counters were renormalized: the
\* minimum is 0 while another counter and a perception count are positive.
C16_Witness ==
  /\ tm_call.op = "add_time_units" /\ tm_call.applied >= 1
  /\ Len(key_order) >= 2
  /\ MinVal(time_units) = 0
  /\ \E c \in DOMAIN time_units : time_units[c] > 0
  /\ \E c \in DOMAIN new_memories_count : new_memories_count[c] > 0

(***************************************************************************)
(* Properties of single TurnManager calls (SpecTMOps).                     *)
(***************************************************************************)
\* The scheduler state kept per actor, and who the player is
SchedulerState == <<time_units, last_turn_time, new_memories_count,
                    turn_history, player_name>>

\* What a call of register_character(n, p) must do
RegisterEffect(n, p) ==
  IF n \in DOMAIN time_units
  THEN UNCHANGED SchedulerState
  ELSE /\ time_units' = Extend(time_units, n, IF p THEN 0 ELSE 1)
       /\ last_turn_time' = Extend(last_turn_time, n, 0)
       /\ new_memories_count' = Extend(new_memories_count, n, 0)

\* C17: register_character is idempotent: a first registration sets the
\* counter to 0 for the player and to 1 for any other actor, the perception
\* count and last_turn_time to 0; registering a name that is already
\* registered changes no counter, no last_turn_time, no perception count
\* and not which actor is the player.
C17_RegisterIdempotent ==
  [][\A n \in Names, p \in BOOLEAN :
       (tm_op'.op = "register_character" /\ tm_op'.character = n
        /\ register_character(n, p))
       => RegisterEffect(n, p)]_vars

\* A registered non-player actor has just been registered again, this time
\* possibly as the player, next to a registered player.
C17_Witness ==
  /\ tm_op.op = "register_character" /\ tm_op.known
  /\ tm_op.character # player_name
  /\ player_name \in DOMAIN time_units
  /\ time_units[tm_op.character] > 0

\* The step just taken was a call for an actor that was not registered
UnknownActorCall ==
  \/ /\ tm_op'.op \in {"remove_character", "increment_memory_count"}
     /\ ~tm_op'.known
  \/ /\ tm_call'.op \in {"add_time_units", "pass_turn"}
     /\ tm_call'.character \notin DOMAIN time_units

\* C18: every TurnManager operation is total: add_time_units,
\* increment_memory_count, remove_character and pass_turn called for an
\* actor that is not registered (a removed player under god mode included)
\* leave all scheduler state unchanged and pass_turn returns False;
\* get_next_character returns None when no actor is registered.
C18_OperationsTotal ==
  /\ [](DOMAIN time_units = {} => get_next_character(Snapshot) = NoName)
  /\ [][UnknownActorCall =>
          /\ UNCHANGED tmState
          /\ (tm_call'.op = "pass_turn" => ~tm_call'.ret)]_vars

\* pass_turn has just been refused for the player's name, which was
\* registered and then removed, while god mode is on and another actor is
\* still registered.
C18_Witness ==
  /\ tm_call.op = "pass_turn" /\ ~tm_call.ret
  /\ tm_call.character = player_name
  /\ player_name \notin DOMAIN time_units
  /\ god_mode
  /\ DOMAIN time_units # {}

\* Two actors a (counter 0) and b (counter 1) are the only registered ones,
\* none of them is the player, and the mode is time_units
TwoActorScenario(a, b) ==
  /\ a # b
  /\ turn_mode = "time_units"
  /\ DOMAIN time_units = {a, b}
  /\ time_units[a] = 0
  /\ time_units[b] = 1
  /\ player_name \notin DOMAIN time_units

MaxChunkLen == 3
OutputTokens == {ThinkEnd, Newline, CommandText}
SplitChunks == UNION {[1..n -> OutputTokens] : n \in 1..MaxChunkLen}

NextChunks ==
  \/ turns_started = 0 /\ execute_minimind_turn /\ UNCHANGED <<tmVars, dispVars, busVars, lockVars>>
  \/ query_streaming(1) /\ UNCHANGED <<tmVars, dispVars, busVars, lockVars>>
  \/ stream_post_ok(1) /\ UNCHANGED <<tmVars, dispVars, busVars, lockVars>>
  \/ \E chunk \in SplitChunks, done \in BOOLEAN :
       handle_response_chunk(1, chunk, done) /\ UNCHANGED <<tmVars, dispVars, busVars, lockVars>>
  \/ stream_break(1) /\ UNCHANGED <<tmVars, dispVars, busVars, lockVars>>
  \/ handle_response_complete(1) /\ UNCHANGED <<tmVars, dispVars, busVars, lockVars>>
  \/ process_command_safely /\ UNCHANGED <<tmVars, dispVars, busVars, lockVars>>
  \/ safe_process_full_response /\ UNCHANGED <<tmVars, dispVars, busVars, lockVars>>

SpecChunks == Init /\ [][NextChunks]_vars

\* The text that followed the closing </think> in the chunks received
AfterThinking ==
  LET end_pos == FirstIndex(complete_response, ThinkEnd)
  IN IF end_pos = 0 THEN <<>> ELSE From(complete_response, end_pos)

\* The newline-terminated lines of a text: all but the last piece of split
CompleteLines(text) ==
  LET lines == Split(text)
  IN {lines[k] : k \in 1..(Len(lines) - 1)}

\* C20: the command committed by the early-stop path of
\* handle_response_chunk is the content of one newline-terminated line of
\* the text that followed </think> in the chunks received so far: never a
\* trailing partial line, never text of two lines merged, however the
\* output is split into chunks.
C20_CommandIsOneLine ==
  has_early_stopped => detected_command \in CompleteLines(AfterThinking)

(***************************************************************************)
(* Minimind turns of registered actors that end in a transport error:      *)
(* execute_minimind_turn starts a turn for the actor get_next_character    *)
(* returns (event_handler.py:34-51).                                       *)
(***************************************************************************)
NextTurnError ==
  \/ \E n \in Names : register_character(n, FALSE) /\ UNCHANGED <<tm_op, dispVars, busVars, streamVars>>
  \/ \E n \in Names, k \in {1} : add_time_units(n, k) /\ UNCHANGED <<tm_op, dispVars, busVars, streamVars>>
  \/ get_next_character(Snapshot) \in DOMAIN time_units /\ execute_minimind_turn /\ UNCHANGED <<tmVars, dispVars, busVars, lockVars>>
  \/ \E i \in Turns : query_streaming(i) /\ UNCHANGED <<tmVars, dispVars, busVars, lockVars>>
  \/ \E i \in Turns : stream_post_ok(i) /\ UNCHANGED <<tmVars, dispVars, busVars, lockVars>>
  \/ \E i \in Turns : handle_response_error(i) /\ UNCHANGED <<tmVars, dispVars, busVars, lockVars>>
  \/ \E i \in Turns : poll_exit(i) /\ UNCHANGED <<tmVars, dispVars, busVars, lockVars>>
  \/ \E i \in Turns : turn_wait_for_completion(i) /\ UNCHANGED <<tmVars, dispVars, busVars, lockVars>>
  \/ \E i \in Turns : turn_completed_wait(i) /\ UNCHANGED <<tmVars, dispVars, busVars, lockVars>>
  \/ \E i \in Turns : final_cleanup(i) /\ UNCHANGED <<tmVars, dispVars, busVars, lockVars>>

SpecTurnError == Init /\ [][NextTurnError]_vars

\* C21: when the streaming client reports a transport error during an
\* actor's turn (handle_response_error fires), the actor whose turn it is
\* is charged a minimal cost through add_time_units, so that
\* get_next_character can move on to another actor.
C21_ErrorChargesTurn ==
  [][\A i \in Turns :
       (handle_response_error(i) /\ turn_in_progress /\ DOMAIN time_units # {})
       => /\ tm_call'.op = "add_time_units"
          /\ tm_call'.character = get_next_character(Snapshot)
          /\ tm_call'.applied >= 1]_vars

(***************************************************************************)
(* One turn under fair scheduling: the turn thread, the stream thread and  *)
(* the Tk event loop each take their next step when it stays possible.     *)
(* What the stream delivers is the server's choice.                        *)
(***************************************************************************)
TurnThread ==
  \/ turns_started = 0 /\ execute_minimind_turn /\ UNCHANGED <<tmVars, dispVars, busVars, lockVars>>
  \/ query_streaming(1) /\ UNCHANGED <<tmVars, dispVars, busVars, lockVars>>
  \/ run_minimind_turn_except(1) /\ UNCHANGED <<tmVars, dispVars, busVars, lockVars>>
  \/ poll_exit(1) /\ UNCHANGED <<tmVars, dispVars, busVars, lockVars>>
  \/ turn_wait_for_completion(1) /\ UNCHANGED <<tmVars, dispVars, busVars, lockVars>>
  \/ turn_completed_wait(1) /\ UNCHANGED <<tmVars, dispVars, busVars, lockVars>>
  \/ final_cleanup(1) /\ UNCHANGED <<tmVars, dispVars, busVars, lockVars>>

StreamThread ==
  \/ stream_post_ok(1) /\ UNCHANGED <<tmVars, dispVars, busVars, lockVars>>
  \/ handle_response_error(1) /\ UNCHANGED <<tmVars, dispVars, busVars, lockVars>>
  \/ stream_end(1) /\ UNCHANGED <<tmVars, dispVars, busVars, lockVars>>
  \/ stream_break(1) /\ UNCHANGED <<tmVars, dispVars, busVars, lockVars>>
  \/ \E chunk \in StreamChunks, done \in BOOLEAN :
       handle_response_chunk(1, chunk, done) /\ UNCHANGED <<tmVars, dispVars, busVars, lockVars>>
  \/ handle_response_complete(1) /\ UNCHANGED <<tmVars, dispVars, busVars, lockVars>>

TkLoop ==
  \/ process_command_safely /\ UNCHANGED <<tmVars, dispVars, busVars, lockVars>>
  \/ safe_process_full_response /\ UNCHANGED <<tmVars, dispVars, busVars, lockVars>>
  \/ set_stop_streaming /\ UNCHANGED <<tmVars, dispVars, busVars, lockVars>>

NextOneTurn == TurnThread \/ StreamThread \/ TkLoop

SpecOneTurnFair ==
  /\ Init /\ [][NextOneTurn]_vars
  /\ WF_vars(TurnThread) /\ WF_vars(StreamThread) /\ WF_vars(TkLoop)

\* C22: every turn started by execute_minimind_turn eventually reaches a
\* terminal state: turn_in_progress is False and the run_minimind_turn
\* worker has exited, whatever the stream delivers, under fair scheduling.
C22_TurnTerminates ==
  (turn_pc[1] # "idle") ~> (turn_pc[1] = "done" /\ ~turn_in_progress)

\* Turn i is in flight: its stream thread is alive, or a command
\* submission it queued for the Tk loop is still pending
InFlight(i) ==
  \/ Alive(i)
  \/ \E k \in 1..Len(ui_queue) :
       /\ ui_queue[k].turn = i
       /\ ui_queue[k].name \in {"process_command_safely", "safe_process_full_response"}

\* C23: at most one turn is in flight at any time, and no chunk,
\* completion or error callback of an earlier turn's stream is processed
\* after a later turn was started.
C23_SingleTurnInFlight ==
  /\ [](\A i \in Turns : InFlight(i) => i = turns_started)
  /\ [][\A i \in Turns :
          (\/ \E chunk \in StreamChunks, done \in BOOLEAN : handle_response_chunk(i, chunk, done)
           \/ handle_response_complete(i)
           \/ handle_response_error(i))
          => i = turns_started]_vars

\* C24: in time_units mode with at least two registered actors, after
\* add_time_units for a non-player actor that get_next_character had just
\* returned, get_next_character does not return that actor again, whatever
\* the raw cost (at least 1) and the god-mode flag.
C24_NoSecondTurnInARow ==
  [][(/\ tm_call'.op = "add_time_units" /\ tm_call'.ret
      /\ tm_call'.arg >= 1
      /\ turn_mode = "time_units"
      /\ Cardinality(DOMAIN time_units) >= 2
      /\ tm_call'.character # player_name
      /\ tm_call'.character = get_next_character(Snapshot))
     => get_next_character(Snapshot)' # tm_call'.character]_vars

\* C25: when the player (god mode off) is first in get_turn_order in
\* time_units mode with at least one other actor, add_time_units adds
\* min(rawCost, max(1, nextActorCounter - ownCounter + 1)) to the player's
\* counter; when the acting actor is not first in turn order, the raw cost
\* is added unmodified.
C25_PlayerCapAndRawCost ==
  [][LET c == tm_call'.character
         raw == tm_call'.arg
         order == get_turn_order(Snapshot)
         cap == Max(1, time_units[order[2]] - time_units[c] + 1)
         Added(cost) ==
           /\ tm_call'.applied = cost
           /\ time_units' = normalize_tu([time_units EXCEPT ![c] = @ + cost])
     IN (tm_call'.op = "add_time_units" /\ tm_call'.ret)
        => /\ (/\ c = player_name /\ ~god_mode /\ turn_mode = "time_units"
               /\ Len(order) > 1 /\ order[1] = c)
              => Added(Min(raw, cap))
           /\ order[1] # c => Added(raw)]_vars

\* The player, first in order with god mode off, has just been charged
\* less than the raw cost; and an actor that was not first has been charged.
C25_Witness ==
  /\ tm_call.op = "add_time_units" /\ tm_call.ret
  /\ tm_call.character = player_name
  /\ ~god_mode /\ turn_mode = "time_units"
  /\ tm_call.first
  /\ tm_call.applied >= 1
  /\ tm_call.applied < tm_call.arg

\* C26: immediately after every add_time_units on a registered actor, and
\* after every successful pass_turn in time_units mode, the minimum
\* time_units value over all registered actors is 0.
C26_MinimumIsZero ==
  [][(\/ tm_call'.op = "add_time_units" /\ tm_call'.ret
      \/ tm_call'.op = "pass_turn" /\ tm_call'.ret /\ turn_mode = "time_units")
     => /\ \E c \in DOMAIN time_units' : time_units'[c] = 0
        /\ \A c \in DOMAIN time_units' : time_units'[c] >= 0]_vars

\* An actor has just been charged or has passed in time_units mode; its
\* counter is 2 or more and another registered actor stands at 0.
C26_Witness ==
  /\ tm_call.op \in {"add_time_units", "pass_turn"} /\ tm_call.ret
  /\ turn_mode = "time_units"
  /\ Cardinality(DOMAIN time_units) >= 2
  /\ time_units[tm_call.character] >= 2
  /\ \E c \in DOMAIN time_units : time_units[c] = 0

\* C27: in every state with at least one registered actor, in both turn
\* modes and with god mode on or off, the first element of get_turn_order
\* is the actor get_next_character returns.
C27_OrderHeadIsNext ==
  DOMAIN time_units # {} =>
    get_turn_order(Snapshot)[1] = get_next_character(Snapshot)

(***************************************************************************)
(* The turn loop over a fixed set of AI actors in time_units mode: the     *)
(* actor get_next_character returns acts and is charged through            *)
(* add_time_units (command_processor.py:427-435), for MaxRound turns.      *)
(***************************************************************************)
MaxRound == 8
RoundActors == {"Alice", "Bob", "Carol"}

NextRound ==
  \/ \E n \in RoundActors :
       /\ turn_history = <<>>
       /\ register_character(n, FALSE)
       /\ UNCHANGED <<tm_op, dispVars, busVars, streamVars>>
  \/ \E k \in 1..MaxCost :
       /\ Cardinality(DOMAIN time_units) >= 2
       /\ add_time_units_within(get_next_character(Snapshot), k, MaxRound, MaxCost * MaxRound + 1)
       /\ UNCHANGED <<tm_op, dispVars, busVars, streamVars>>

SpecRound == Init /\ [][NextRound]_vars

\* Every registered actor is in each run of w consecutive turns
EveryoneWithin(w) ==
  \A i \in 1..(Len(turn_history) - w + 1) :
    \A c \in DOMAIN time_units :
      \E j \in i..(i + w - 1) : turn_history[j] = c


\* The longest wait the floor of add_time_units allows with up to three
\* actors: the two others leapfrog by one until they pass the third
RoundWindow == MaxCost + 2

C29_LastTurnTimeIncreases ==
  /\ [](\A c \in DOMAIN last_turn_time : last_turn_time[c] <= Len(turn_history))
  /\ [][LET c == tm_call'.character
            call == tm_call'.op \in {"add_time_units", "pass_turn"}
        IN /\ Len(turn_history') >= Len(turn_history)
           /\ (call /\ tm_call'.ret) =>
                /\ Len(turn_history') = Len(turn_history) + 1
                /\ last_turn_time'[c] = Len(turn_history')
                /\ \A d \in DOMAIN last_turn_time' \ {c} :
                     /\ last_turn_time'[d] = last_turn_time[d]
                     /\ last_turn_time'[d] < last_turn_time'[c]
           /\ ~(call /\ tm_call'.ret) =>
                \A d \in DOMAIN last_turn_time \cap DOMAIN last_turn_time' :
                  last_turn_time'[d] = last_turn_time[d]]_vars

\* An actor has just acted or passed as the second turn and holds the
\* maximum, while the actor of the first turn was removed and registered
\* again since (its last_turn_time is back to 0).
C29_Witness ==
  /\ tm_call.op \in {"add_time_units", "pass_turn"} /\ tm_call.ret
  /\ Len(turn_history) = 2
  /\ turn_history[1] # tm_call.character
  /\ turn_history[1] \in DOMAIN last_turn_time
  /\ last_turn_time[turn_history[1]] = 0
  /\ last_turn_time[tm_call.character] = 2

(***************************************************************************)
(* Turns whose streams deliver a whole answer in one chunk (the end of the *)
(* thinking, a command line and the start of a second line): a command is  *)
(* detected at the first chunk, and a stream that outlives its turn keeps  *)
(* delivering chunks.                                                      *)
(***************************************************************************)
WholeAnswer == <<ThinkEnd, CommandText, Newline, CommandText>>
AnswerChunks == {WholeAnswer, <<CommandText, Newline>>}

\* The turn whose stream outlives it, and the turn after it
AnswerTurns == {1, 2}

NextAnswers ==
  \/ turns_started + 1 \in AnswerTurns /\ execute_minimind_turn /\ UNCHANGED <<tmVars, dispVars, busVars, lockVars>>
  \/ \E i \in AnswerTurns : query_streaming(i) /\ UNCHANGED <<tmVars, dispVars, busVars, lockVars>>
  \/ \E i \in AnswerTurns : poll_exit(i) /\ UNCHANGED <<tmVars, dispVars, busVars, lockVars>>
  \/ \E i \in AnswerTurns : turn_wait_for_completion(i) /\ UNCHANGED <<tmVars, dispVars, busVars, lockVars>>
  \/ \E i \in AnswerTurns : turn_completed_wait(i) /\ UNCHANGED <<tmVars, dispVars, busVars, lockVars>>
  \/ \E i \in AnswerTurns : final_cleanup(i) /\ UNCHANGED <<tmVars, dispVars, busVars, lockVars>>
  \/ \E i \in AnswerTurns : stream_post_ok(i) /\ UNCHANGED <<tmVars, dispVars, busVars, lockVars>>
  \/ \E i \in AnswerTurns : stream_end(i) /\ UNCHANGED <<tmVars, dispVars, busVars, lockVars>>
  \/ \E i \in AnswerTurns : stream_break(i) /\ UNCHANGED <<tmVars, dispVars, busVars, lockVars>>
  \/ \E i \in AnswerTurns, chunk \in AnswerChunks, done \in BOOLEAN :
       handle_response_chunk(i, chunk, done) /\ UNCHANGED <<tmVars, dispVars, busVars, lockVars>>
  \/ \E i \in AnswerTurns : handle_response_complete(i) /\ UNCHANGED <<tmVars, dispVars, busVars, lockVars>>
  \/ process_command_safely /\ UNCHANGED <<tmVars, dispVars, busVars, lockVars>>
  \/ safe_process_full_response /\ UNCHANGED <<tmVars, dispVars, busVars, lockVars>>
  \/ set_stop_streaming /\ UNCHANGED <<tmVars, dispVars, busVars, lockVars>>

SpecAnswers == Init /\ [][NextAnswers]_vars

\* C30: once handle_response_chunk has detected a command in a turn,
\* command_detected stays True and detected_command, complete_response and
\* post_thinking_buffer do not change until the next turn is started; a
\* further chunk mutates nothing, requests no cancellation and schedules no
\* second command submission.
C30_DetectionIsFinal ==
  [][(command_detected /\ turns_started' = turns_started)
     => /\ UNCHANGED <<command_detected, detected_command, complete_response,
                       post_thinking_buffer, thinking_complete, has_early_stopped>>
        /\ (\E i \in AnswerTurns, chunk \in AnswerChunks, done \in BOOLEAN :
              handle_response_chunk(i, chunk, done))
           => UNCHANGED <<stop_streaming, llmState, ui_queue, guiFlags, resolutions>>]_vars

\* The stream of turn 1 had its command detected at its first chunk and
\* was cancelled; it outlived the turn and has read two more chunks in
\* turn 2, of which at most one reached complete_response: the other came
\* after the detection of turn 2 and changed nothing.
C30_Witness ==
  /\ command_detected
  /\ turns_started = 2
  /\ lines_read[1] = 3
  /\ SubSeq(full_response[1], 1, Len(WholeAnswer)) = WholeAnswer
  /\ complete_response = WholeAnswer

(***************************************************************************)
(* C31: completion after an early stop.                                    *)
(***************************************************************************)
\* _stream_response calls on_complete for the line marked done unless the
\* stream was cancelled (llm_interface.py:152-153)
CompleteCalled(i) == handle_response_complete(i) /\ ~stream_canceled

\* The tasks of the Tk queue that submit a command
Submissions(queue) == SelectSeq(queue, LAMBDA t : t.name \in {"process_command_safely", "safe_process_full_response"})

\* C31: when handle_response_complete runs after the early-stop path has
\* detected a command, it changes no stream state and queues nothing;
\* when no command was detected it replaces complete_response by the full
\* text and queues exactly one submission, that of the fallback command
\* derived from the full text, followed by the delayed stop_streaming.set().
\* The early-stop flag and the detection flag always agree.
C31_CompleteAfterDetection ==
  /\ [](has_early_stopped <=> command_detected)
  /\ [][\A i \in AnswerTurns : CompleteCalled(i) =>
          IF command_detected
          THEN UNCHANGED <<responseState, guiFlags, ui_queue, resolutions>>
          ELSE /\ complete_response' = full_response[i]
               /\ Submissions(ui_queue') = Submissions(ui_queue) \o <<Task("safe_process_full_response", i, clean_llm_response(full_response[i]))>>
               /\ Len(ui_queue') = Len(ui_queue) + 2
               /\ UNCHANGED <<post_thinking_buffer, thinking_complete, command_detected, detected_command, has_early_stopped, guiFlags, resolutions>>]_vars

\* Turn 2's stream ended with a done line and no command, so its fallback
\* submission is queued; the stream of turn 1, still alive, then read a
\* chunk marked done in which a command was detected, and is about to call
\* handle_response_complete with the early-stop flag set
C31_Witness ==
  /\ has_early_stopped
  /\ ~stream_canceled
  /\ stream_pc[1] = "completing"
  /\ \E k \in 1..Len(ui_queue) : ui_queue[k] = Task("safe_process_full_response", 2, <<CommandText>>)

(***************************************************************************)
(* C32: no detection inside the thinking block.                            *)
(***************************************************************************)
\* One turn whose output arrives in chunks of one or two tokens, with
\* command text before and after the delimiter
ThinkingChunks == {chunk \in SplitChunks : Len(chunk) <= 2}

NextThinking ==
  \/ turns_started = 0 /\ execute_minimind_turn /\ UNCHANGED <<tmVars, dispVars, busVars, lockVars>>
  \/ query_streaming(1) /\ UNCHANGED <<tmVars, dispVars, busVars, lockVars>>
  \/ stream_post_ok(1) /\ UNCHANGED <<tmVars, dispVars, busVars, lockVars>>
  \/ \E chunk \in ThinkingChunks, done \in BOOLEAN :
       handle_response_chunk(1, chunk, done) /\ UNCHANGED <<tmVars, dispVars, busVars, lockVars>>
  \/ stream_break(1) /\ UNCHANGED <<tmVars, dispVars, busVars, lockVars>>
  \/ handle_response_complete(1) /\ UNCHANGED <<tmVars, dispVars, busVars, lockVars>>
  \/ process_command_safely /\ UNCHANGED <<tmVars, dispVars, busVars, lockVars>>
  \/ safe_process_full_response /\ UNCHANGED <<tmVars, dispVars, busVars, lockVars>>

SpecThinking == Init /\ [][NextThinking]_vars

\* The thinking block of the accumulated output: the text up to the first
\* </think>, the whole output while the delimiter has not appeared
ThinkingBlock ==
  LET end_pos == FirstIndex(complete_response, ThinkEnd)
  IN IF end_pos = 0 THEN complete_response ELSE SubSeq(complete_response, 1, end_pos - 1)

\* The words of a text: its tokens other than line breaks
Words(text) == SelectSeq(text, LAMBDA t : t # Newline)

\* part is a run of consecutive words of text
IsRunOf(part, text) == \E a \in 1..(Len(text) + 1), b \in 0..Len(text) : SubSeq(text, a, b) = part

\* The early-stop path has acted: a command is committed, the
\* cancellation requested or the delayed submission queued
EarlyStopRequested ==
  \/ command_detected
  \/ has_early_stopped
  \/ detected_command # NoCommand
  \/ stream_canceled
  \/ \E k \in 1..Len(ui_queue) : ui_queue[k].name = "process_command_safely"

\* C32: while the closing </think> has not appeared in the accumulated
\* output, handle_response_chunk detects no command and requests no
\* cancellation; command_detected implies thinking_complete, and the
\* committed command is made of consecutive words of the text after the
\* delimiter, never of text of the thinking block.
C32_NoDetectionWhileThinking ==
  /\ command_detected => thinking_complete
  /\ thinking_complete <=> ThinkEnd \in SeqToSet(complete_response)
  /\ EarlyStopRequested => /\ thinking_complete
                           /\ detected_command # NoCommand
                           /\ IsRunOf(detected_command, Words(AfterThinking))
  /\ ~thinking_complete => post_thinking_buffer = <<>>

\* The output held a command line inside the thinking block and none was
\* committed there: the command was detected in the text after </think>
C32_Witness ==
  /\ command_detected
  /\ Len(ThinkingBlock) >= 2
  /\ ThinkingBlock[1] = CommandText
  /\ ThinkingBlock[2] = Newline
  /\ detected_command = <<CommandText>>

(***************************************************************************)
(* C33: both observer registries under register and unregister calls with  *)
(* two different callbacks, followed by one event.                         *)
(***************************************************************************)
\* The dispatcher registry is idle: nothing registered, nothing dispatched
DispatcherIdle == disp_observers = EmptyFn /\ disp_last = NoDispatch

\* The bus registry is idle
BusIdle == bus_observers = EmptyFn /\ bus_first = NoFirst

NextRegistry ==
  \/ \E c \in BusCharacters, cb \in Callbacks :
       BusIdle /\ dispatcher_register(c, cb) /\ UNCHANGED <<tmVars, busVars, streamVars>>
  \/ \E c \in BusCharacters :
       BusIdle /\ dispatcher_unregister(c) /\ UNCHANGED <<tmVars, busVars, streamVars>>
  \/ \E d \in {x \in EventData : ~is_error(x)} :
       BusIdle /\ dispatch_event("shout", d) /\ UNCHANGED <<tmVars, busVars, streamVars>>
  \/ \E c \in BusCharacters, cb \in Callbacks :
       DispatcherIdle /\ bus_register(c, cb) /\ UNCHANGED <<tmVars, dispVars, streamVars>>
  \/ \E c \in BusCharacters, cb \in Callbacks \cup {"None"} :
       DispatcherIdle /\ bus_unregister(c, cb) /\ UNCHANGED <<tmVars, dispVars, streamVars>>
  \/ \E d \in BusData :
       DispatcherIdle /\ publish("shout", BusDescription(d.actor), d) /\ UNCHANGED <<tmVars, dispVars, streamVars>>

\* The two registries share no state; each is exercised while the other
\* is idle.
SpecRegistry == Init /\ [][NextRegistry]_vars

\* The callbacks invoked for one recipient by the last event
InvokedFor(delivered, o) == {d.callback : d \in {x \in delivered : x.observer = o}}

\* C33: after any sequence of register and unregister calls each actor has
\* at most one live callback in the EventDispatcher registry and in the
\* EventBus registry, and one dispatched or published event invokes at most
\* one callback per recipient.
C33_OneCallbackPerActor ==
  /\ \A c \in DOMAIN bus_observers : Len(bus_observers[c]) <= 1
  /\ \A c \in BusCharacters : Cardinality(InvokedFor(bus_last.delivered, c)) <= 1
  /\ \A c \in DOMAIN disp_observers : disp_observers[c] \in Callbacks
  /\ \A c \in BusCharacters : Cardinality(InvokedFor(disp_last.delivered, c)) <= 1

(***************************************************************************)
(* The orchestrator: actors registered with the TurnManager and with the   *)
(* dispatcher, whose callbacks are CommandProcessor.world_event_callback   *)
(* bound to the actor's name (command_processor.py:660-676).               *)
(***************************************************************************)
\* gui.miniminds: load_miniminds and create_minimind add a minimind to the
\* dict and to the TurnManager together, and nothing removes one
miniminds == DOMAIN time_units \ {player_name}

\* CommandProcessor.world_event_callback(character_name, event_type,
\* description, data): TRUE when the call reaches increment_memory_count
world_event_callback(character_name, description, data) ==
  LET actor == data.actor
      observer == character_name
  IN IF Contains(description, WarnSign) /\ character_name = player_name /\ actor # character_name
     THEN FALSE
     ELSE IF Contains(description, "You say:") /\ observer # actor THEN FALSE
     ELSE IF character_name = player_name THEN FALSE
     ELSE IF character_name \in miniminds THEN actor # character_name
     ELSE FALSE

\* World.notify_location: dispatch_event, which runs the callback of every
\* recipient before it returns
notify_location(event_type, event_data) ==
  LET delivered == Deliveries(disp_observers, char_location, event_type, event_data)
      counted == {d.observer : d \in {x \in delivered : world_event_callback(x.observer, x.text, event_data)}}
  IN /\ disp_last' = [op |-> "dispatch_event", event_type |-> event_type,
                      event_data |-> event_data, delivered |-> delivered]
     /\ \A c \in counted \cap DOMAIN new_memories_count : new_memories_count[c] < MaxMem
     /\ new_memories_count' = [c \in DOMAIN new_memories_count |->
                                 IF c \in counted THEN new_memories_count[c] + 1
                                 ELSE new_memories_count[c]]
     /\ tm_call' = NoCall
     /\ UNCHANGED <<dispState, time_units, last_turn_time, key_order, turn_history, player_name, god_mode, turn_mode>>

\* The event World.process_command publishes for "say hello"
SayData(agent) ==
  [actor |-> agent, location |-> char_location[agent], message |-> Plain,
   description |-> <<agent, "says:">> \o Plain, origin |-> NoLoc,
   destination |-> NoLoc, action |-> <<>>, via |-> ""]

\* The commands an agent submits: one the world carries out, one it rejects
AgentCommands == {"say hello", "bogus"}

\* _process_agent_command returning before the world is asked: nothing is
\* dispatched and the TurnManager is not called
AgentCommandRefused(agent) ==
  /\ tm_op' = Op("_process_agent_command", agent)
  /\ tm_call' = NoCall
  /\ disp_last' = NoDispatch
  /\ UNCHANGED <<tmState, dispState>>

\* _process_agent_command from World.process_command on (lines 331-462):
\* the world publishes the speech, or hands the error to the actor, and the
\* agent is charged unless it is the player in god mode
AgentCommandProcessed(agent, command, tu_cost) ==
  LET delivered == Deliveries(disp_observers, char_location, "speech", SayData(agent))
      counted == {d.observer : d \in {x \in delivered : world_event_callback(x.observer, x.text, SayData(agent))}}
      counts == [c \in DOMAIN new_memories_count |->
                   IF c \in counted THEN new_memories_count[c] + 1
                   ELSE new_memories_count[c]]
      charged(after, cost) ==
        IF god_mode /\ agent = player_name
        THEN /\ tm_call' = NoCall
             /\ new_memories_count' = after
             /\ UNCHANGED <<time_units, last_turn_time, key_order, turn_history, player_name, god_mode, turn_mode>>
        ELSE add_time_units_after(agent, cost, after, MaxHistory, MaxTU)
  IN /\ tm_op' = Op("_process_agent_command", agent)
     /\ IF command = "say hello"
        THEN /\ \A c \in DOMAIN counts : counts[c] <= MaxMem
             /\ disp_last' = [op |-> "dispatch_event", event_type |-> "speech",
                              event_data |-> SayData(agent), delivered |-> delivered]
             /\ UNCHANGED dispState
             /\ charged(counts, tu_cost)
        ELSE /\ process_command_failed(agent, <<"Failed:", "oops">>)
             /\ charged(new_memories_count, 1)

\* _process_agent_command without the turn check of lines 289-292
_process_agent_command_NoTurnCheck(agent, command, tu_cost) ==
  /\ ~turn_in_progress
  /\ IF char_location[agent] = NoLoc
     THEN AgentCommandRefused(agent)
     ELSE AgentCommandProcessed(agent, command, tu_cost)

\* CommandProcessor._process_agent_command(agent, command), called while no
\* minimind turn is in progress; tu_cost is calculate_tu_cost(command)
_process_agent_command(agent, command, tu_cost) ==
  /\ ~turn_in_progress
  /\ IF char_location[agent] = NoLoc
     THEN AgentCommandRefused(agent)
     ELSE IF get_next_character(Snapshot) # agent /\ ~god_mode
     THEN AgentCommandRefused(agent)
     ELSE AgentCommandProcessed(agent, command, tu_cost)

\* The name-bound callback that register_minimind_observers installs
WorldCallback == "cb1"

NextWorld ==
  \/ \E n \in Names, p \in BOOLEAN :
       (p => player_name = NoName) /\ register_character(n, p) /\ UNCHANGED <<tm_op, dispVars, busVars, streamVars>>
  \/ \E n \in Names : dispatcher_register(n, WorldCallback) /\ UNCHANGED <<tmVars, busVars, streamVars>>
  \/ \E t \in EventTypes \ {"movement"}, d \in EventData :
       notify_location(t, d) /\ UNCHANGED <<tm_op, busVars, streamVars>>

SpecWorld == Init /\ [][NextWorld]_vars

\* C34: each delivery of an event to a registered recipient other than the
\* event's actor, the player or an AI actor, raises that recipient's
\* perception counter by exactly 1, and the actor's own counter is not
\* raised by its own event.
C34_PerceptionCounted ==
  [][\A t \in EventTypes, e \in EventData : notify_location(t, e) =>
       \A d \in disp_last'.delivered :
          d.observer \in DOMAIN new_memories_count
            => new_memories_count'[d.observer]
                 = new_memories_count[d.observer] + (IF d.observer # e.actor THEN 1 ELSE 0)]_vars

(***************************************************************************)
(* C35: commands submitted in and out of turn by registered actors, with   *)
(* god mode switched on and off and actors leaving the world.              *)
(***************************************************************************)
NextAgent ==
  \/ \E n \in Names, p \in BOOLEAN :
       (p => player_name = NoName) /\ register_character(n, p) /\ tm_op' = NoOp /\ UNCHANGED <<dispVars, busVars, streamVars>>
  \/ \E n \in Names : dispatcher_register(n, WorldCallback) /\ tm_op' = NoOp /\ UNCHANGED <<tmState, tm_call, busVars, streamVars>>
  \/ \E b \in BOOLEAN : set_god_mode(b) /\ tm_op' = NoOp /\ UNCHANGED <<dispVars, busVars, streamVars>>
  \/ \E n \in Names : move_character(n, "Attic") /\ tm_op' = NoOp /\ UNCHANGED <<tmState, tm_call, busVars, streamVars>>
  \/ \E n \in Names, c \in AgentCommands, k \in 1..MaxCost :
       _process_agent_command(n, c, k) /\ UNCHANGED <<busVars, streamVars>>

SpecAgent == Init /\ [][NextAgent]_vars

\* C35: with god mode off, when an actor other than the one
\* get_next_character returns submits a command, _process_agent_command
\* dispatches no event to any observer, leaves the world state as it was
\* and changes no TurnManager counter, last_turn_time or turn history
\* entry: the failure goes back to the caller only.
C35_OutOfTurnChangesNothing ==
  [][(/\ tm_op'.op = "_process_agent_command"
      /\ ~god_mode
      /\ get_next_character(Snapshot) # tm_op'.character)
       => /\ disp_last'.delivered = {}
          /\ tm_call' = NoCall
          /\ UNCHANGED <<tmState, dispState>>]_vars

\* Bob has just submitted a command while it was Alice's turn, god mode
\* being off and both being registered and placed in the world
C35_Witness ==
  /\ tm_op = Op("_process_agent_command", "Bob")
  /\ tm_op.known
  /\ ~god_mode
  /\ get_next_character(Snapshot) = "Alice"
  /\ char_location["Bob"] # NoLoc
  /\ "Bob" \in DOMAIN disp_observers
  /\ "Alice" \in DOMAIN disp_observers
  /\ tm_call = NoCall
  /\ disp_last = NoDispatch

(***************************************************************************)
(* C36: response_lock.  Each handler of the model is one step; what it     *)
(* reads and writes of the per-turn stream state, and which of these       *)
(* accesses sit inside a "with self.response_lock" block, is read off      *)
(* event_handler.py.                                                       *)
(***************************************************************************)
StreamFields == {"complete_response", "post_thinking_buffer", "thinking_complete", "command_detected", "detected_command", "has_early_stopped"}

\* The stream state a handler reads or writes (fields) and the part of it
\* accessed while the handler holds response_lock (locked).
\*   handle_response_chunk: lines 154-211, all inside the with block; the
\*     lambda queued at 204-210 belongs to process_command_safely.
\*   handle_response_complete: lines 237-270, all inside the with block,
\*     store_thinking_chain and clean_llm_response included.
\*   handle_response_error: lines 294-301, no stream state.
\*   process_command_safely: the queued lambda evaluates
\*     self.complete_response when the Tk loop runs it (line 209).
\*   safe_process_full_response: reads self.has_early_stopped (line 279).
StreamAccess(handler) ==
  CASE handler = "handle_response_chunk" ->
         [fields |-> StreamFields, locked |-> StreamFields]
    [] handler = "handle_response_complete" ->
         [fields |-> {"has_early_stopped", "complete_response", "detected_command"},
          locked |-> {"has_early_stopped", "complete_response", "detected_command"}]
    [] handler = "handle_response_error" -> [fields |-> {}, locked |-> {}]
    [] handler = "process_command_safely" -> [fields |-> {"complete_response"}, locked |-> {}]
    [] handler = "safe_process_full_response" -> [fields |-> {"has_early_stopped"}, locked |-> {}]

\* The step is a run of the handler
Runs(handler) ==
  CASE handler = "handle_response_chunk" ->
         \E i \in AnswerTurns, chunk \in AnswerChunks, done \in BOOLEAN : handle_response_chunk(i, chunk, done)
    [] handler = "handle_response_complete" ->
         \E i \in AnswerTurns : handle_response_complete(i) /\ ~stream_canceled
    [] handler = "handle_response_error" -> \E i \in AnswerTurns : handle_response_error(i)
    [] handler = "process_command_safely" -> process_command_safely
    [] handler = "safe_process_full_response" -> safe_process_full_response

StreamHandlers == {"handle_response_chunk", "handle_response_complete", "handle_response_error", "process_command_safely", "safe_process_full_response"}

\* C36: while a turn is in flight, every read and write of the per-turn
\* stream state made by the chunk, completion, error and delayed-submission
\* handlers is made while the accessing thread holds response_lock.
C36_StreamStateUnderLock ==
  [][\A handler \in StreamHandlers :
       (turn_in_progress /\ Runs(handler))
         => StreamAccess(handler).fields \subseteq StreamAccess(handler).locked]_vars

(***************************************************************************)
(* C37: the three per-actor tables keep one key set.                       *)
(***************************************************************************)
\* C37: in every state reachable by TurnManager operations, time_units,
\* last_turn_time and new_memories_count have exactly the same keys, the
\* registered actors, so that a scheduling query finds an entry in each
\* table for every actor it ranks.
C37_SameKeys ==
  /\ DOMAIN last_turn_time = DOMAIN time_units
  /\ DOMAIN new_memories_count = DOMAIN time_units
  /\ \A c \in Keys(Snapshot) : c \in DOMAIN last_turn_time /\ c \in DOMAIN new_memories_count

\* add_time_units has just been called for an actor that took a turn and
\* was removed afterwards, while another actor is still registered
C37_Witness ==
  /\ tm_call.op = "add_time_units"
  /\ ~tm_call.ret
  /\ tm_call.character \in SeqToSet(turn_history)
  /\ tm_call.character \notin DOMAIN time_units
  /\ DOMAIN time_units # {}

(***************************************************************************)
(* C38: memories mode, no second turn in a row.                            *)
(***************************************************************************)
\* add_time_units has just been applied to a registered actor
TurnTaken == tm_call.op = "add_time_units" /\ tm_call.ret

\* C38: in memories mode, with no god-mode player and at least two
\* registered actors, right after add_time_units is applied for an actor
\* its perception count is 0, its last_turn_time is larger than that of
\* every other actor, and get_next_character returns another actor.
C38_MemoriesNoSecondTurn ==
  (/\ TurnTaken
   /\ turn_mode = "memories"
   /\ ~GodPinned(Snapshot)
   /\ Cardinality(DOMAIN time_units) >= 2)
    => /\ new_memories_count[tm_call.character] = 0
       /\ \A c \in DOMAIN time_units \ {tm_call.character} : last_turn_time[c] < last_turn_time[tm_call.character]
       /\ get_next_character(Snapshot) # tm_call.character

\* The actor that has just acted is the first key of the tables and nobody
\* holds a new perception, so that only the tie-break by last_turn_time
\* passes the turn on
C38_Witness ==
  /\ TurnTaken
  /\ turn_mode = "memories"
  /\ ~GodPinned(Snapshot)
  /\ Cardinality(DOMAIN time_units) >= 2
  /\ AllCountsZero(Snapshot)
  /\ key_order[1] = tm_call.character
  /\ Len(turn_history) >= 2


(***************************************************************************)
(* C40: start-up, miniminds created at run time, and the observer registry *)
(* that notify_location dispatches through.                                *)
(***************************************************************************)
\* The lists Minimind.get_all_miniminds can return when the player is p
OnDisk(p) ==
  {<<>>} \cup {<<a>> : a \in Characters \ {p}}
         \cup {m \in (Characters \ {p}) \X (Characters \ {p}) : m[1] # m[2]}

\* MinimindGUI.__init__ from load_miniminds on: every minimind on disk is
\* registered with the TurnManager, register_minimind_observers gives the
\* player and every minimind a callback in the EventDispatcher, and
\* initialize_world registers the player with the EventBus and, as player,
\* with the TurnManager
MinimindGUI_init(player, minds) ==
  LET everyone == SeqToSet(minds) \cup {player}
  IN /\ time_units = EmptyFn /\ player_name = NoName
     /\ disp_observers = EmptyFn /\ bus_observers = EmptyFn
     /\ time_units' = [c \in everyone |-> IF c = player THEN 0 ELSE 1]
     /\ last_turn_time' = [c \in everyone |-> 0]
     /\ new_memories_count' = [c \in everyone |-> 0]
     /\ key_order' = Append(minds, player)
     /\ player_name' = player
     /\ tm_call' = NoCall
     /\ disp_observers' = [c \in everyone |-> WorldCallback]
     /\ disp_last' = NoDispatch
     /\ bus_observers' = [c \in {player} |-> <<WorldCallback>>]
     /\ bus_last' = NoPublish
     /\ UNCHANGED <<turn_history, god_mode, turn_mode, char_location, now,
                    bus_recent_events, bus_observer_recent_events, bus_first>>

\* MinimindGUI.create_minimind with the name typed into the dialog: the new
\* minimind is placed in a random location, registered with the TurnManager
\* and handed to World.register_observer, which is EventBus.register
create_minimind(name, location) ==
  /\ player_name \in DOMAIN time_units
  /\ name \notin miniminds
  /\ char_location' = [char_location EXCEPT ![name] = location]
  /\ register_character(name, FALSE)
  /\ bus_register(name, WorldCallback)
  /\ disp_last' = NoDispatch
  /\ UNCHANGED disp_observers

\* MinimindGUI.reload_all_miniminds: load_miniminds finds every minimind
\* already registered with the TurnManager, and register_minimind_observers
\* registers the player and every minimind with the EventDispatcher again
reload_all_miniminds ==
  /\ player_name \in DOMAIN time_units
  /\ disp_observers' = [c \in DOMAIN disp_observers \cup DOMAIN time_units |-> WorldCallback]
  /\ disp_last' = NoDispatch
  /\ tm_call' = NoCall
  /\ UNCHANGED <<char_location, tmState>>

NextStartup ==
  \/ \E p \in Names : \E minds \in OnDisk(p) :
       MinimindGUI_init(p, minds) /\ UNCHANGED <<tm_op, streamVars>>
  \/ \E n \in Characters, l \in Locations :
       create_minimind(n, l) /\ UNCHANGED <<tm_op, streamVars>>
  \/ reload_all_miniminds /\ UNCHANGED <<tm_op, busVars, streamVars>>
  \/ \E t \in {"speech", "shout"}, d \in {x \in EventData : ~is_error(x)} :
       /\ player_name \in DOMAIN time_units
       /\ notify_location(t, d)
       /\ UNCHANGED <<tm_op, busVars, streamVars>>

SpecStartup == Init /\ [][NextStartup]_vars

\* C40: once start-up is over, every actor registered with the TurnManager
\* has a callback in EventDispatcher.observers, the registry that
\* World.notify_location dispatches through.
C40_TurnTakersObserve ==
  player_name \in DOMAIN time_units => DOMAIN time_units \subseteq DOMAIN disp_observers


(***************************************************************************)
(* C39: the two mutexes.  The handlers are taken apart at the places where *)
(* a thread acquires a lock or waits on an event: a thread that wants a    *)
(* lock stays in front of it until the lock is free, and a wait with a     *)
(* timeout returns with or without its event.  What the stream holds is    *)
(* left out: a chunk either completes a command line or it does not.       *)
(***************************************************************************)
LockTurns == {1, 2}
LockThreads == {UI} \cup {TurnWorker(i) : i \in LockTurns} \cup {StreamWorker(i) : i \in LockTurns}

\* threading.Thread.is_alive() of stream thread i
is_alive(i) == stream_pc[i] \notin {"idle", "done"}

\* Where thread t stands
PcOf(t) ==
  IF t = UI THEN ui_pc
  ELSE IF t[1] = "turn" THEN turn_pc[t[2]]
  ELSE stream_pc[t[2]]

\* Thread t moves on to pc; the other threads stay where they are
Goto(t, pc) ==
  /\ ui_pc' = IF t = UI THEN pc ELSE ui_pc
  /\ turn_pc' = IF t[1] = "turn" THEN [turn_pc EXCEPT ![t[2]] = pc] ELSE turn_pc
  /\ stream_pc' = IF t[1] = "stream" THEN [stream_pc EXCEPT ![t[2]] = pc] ELSE stream_pc

\* What the stream threads keep of the text is not part of this view
TextUnchanged ==
  UNCHANGED <<complete_response, post_thinking_buffer, thinking_complete,
              detected_command, full_response, lines_read, failures>>

\* execute_minimind_turn up to the with block (event_handler.py:31-58)
execute_minimind_turn_begin ==
  /\ ui_pc = "idle"
  /\ ~turn_in_progress
  /\ turns_started + 1 \in LockTurns
  /\ turn_completed' = FALSE
  /\ turn_in_progress' = TRUE
  /\ stop_streaming' = FALSE
  /\ Goto(UI, "reset_lock")
  /\ TextUnchanged
  /\ UNCHANGED <<command_detected, has_early_stopped, llmState, ui_queue,
                 turns_started, submitted, response_lock, thread_lock>>

\* execute_minimind_turn, lines 60-72: the fields are reset inside
\* "with self.response_lock" and the run_minimind_turn thread is started
execute_minimind_turn_reset ==
  /\ ui_pc = "reset_lock"
  /\ response_lock = Unlocked
  /\ command_detected' = FALSE
  /\ has_early_stopped' = FALSE
  /\ turns_started' = turns_started + 1
  /\ ui_pc' = "idle"
  /\ turn_pc' = [turn_pc EXCEPT ![turns_started + 1] = "start"]
  /\ TextUnchanged
  /\ UNCHANGED <<guiFlags, llmState, stream_pc, ui_queue, submitted,
                 response_lock, thread_lock>>

\* query_streaming, llm_interface.py:78-79: the two events are cleared
\* before thread_lock is asked for
query_streaming_clear(i) ==
  /\ turn_pc[i] = "start"
  /\ stream_canceled' = FALSE
  /\ stream_completed' = FALSE
  /\ Goto(TurnWorker(i), "start_lock")
  /\ TextUnchanged
  /\ UNCHANGED <<guiFlags, command_detected, has_early_stopped,
                 active_stream_thread, ui_queue, turns_started, submitted,
                 response_lock, thread_lock>>

\* query_streaming, lines 99-112: inside "with self.thread_lock" the stream
\* thread is created, stored and started
query_streaming_start(i) ==
  /\ turn_pc[i] = "start_lock"
  /\ thread_lock = Unlocked
  /\ active_stream_thread' = i
  /\ turn_pc' = [turn_pc EXCEPT ![i] = "polling"]
  /\ stream_pc' = [stream_pc EXCEPT ![i] = "reading"]
  /\ TextUnchanged
  /\ UNCHANGED <<guiFlags, command_detected, has_early_stopped,
                 stream_canceled, stream_completed, ui_queue, turns_started,
                 submitted, response_lock, thread_lock, ui_pc>>

\* run_minimind_turn, lines 120-121: the polling loop ends
poll_loop_exit(i) ==
  /\ turn_pc[i] = "polling"
  /\ ~turn_in_progress \/ stop_streaming
  /\ Goto(TurnWorker(i), "wfc_lock")
  /\ TextUnchanged
  /\ UNCHANGED <<guiFlags, command_detected, has_early_stopped, llmState,
                 ui_queue, turns_started, submitted, response_lock,
                 thread_lock>>

\* Where thread t goes on when wait_for_completion returns ret: the turn
\* worker calls cancel_streaming after False (lines 125-127), the Tk thread
\* goes on with process_command_safely whatever the answer (line 217)
AfterWaitForCompletion(t, ret) ==
  IF t = UI THEN "process"
  ELSE IF ret THEN "turn_wait"
  ELSE "cancel_lock"

\* wait_for_completion, llm_interface.py:211-214: thread t acquires
\* thread_lock; with no live stream thread it returns True at once
wait_for_completion_acquire(t) ==
  /\ PcOf(t) = "wfc_lock"
  /\ thread_lock = Unlocked
  /\ IF active_stream_thread # NoThread /\ is_alive(active_stream_thread)
     THEN thread_lock' = t /\ Goto(t, "wfc_wait")
     ELSE thread_lock' = Unlocked /\ Goto(t, AfterWaitForCompletion(t, TRUE))
  /\ TextUnchanged
  /\ UNCHANGED <<guiFlags, command_detected, has_early_stopped, llmState,
                 ui_queue, turns_started, submitted, response_lock>>

\* wait_for_completion, lines 216-221: stream_completed.wait(timeout)
\* returns, with the event set or after the timeout; after the timeout the
\* stream is cancelled
wait_for_completion_wait(t) ==
  /\ PcOf(t) = "wfc_wait"
  /\ thread_lock = t
  /\ IF stream_completed
     THEN /\ thread_lock' = Unlocked
          /\ Goto(t, AfterWaitForCompletion(t, TRUE))
          /\ UNCHANGED stream_canceled
     ELSE /\ stream_canceled' = TRUE
          /\ Goto(t, "wfc_join")
          /\ UNCHANGED thread_lock
  /\ TextUnchanged
  /\ UNCHANGED <<guiFlags, command_detected, has_early_stopped,
                 stream_completed, active_stream_thread, ui_queue,
                 turns_started, submitted, response_lock>>

\* wait_for_completion, lines 223-235: join(timeout=1.0) returns, the
\* reference is dropped, thread_lock is released and the state of
\* stream_completed is the answer
wait_for_completion_join(t) ==
  /\ PcOf(t) = "wfc_join"
  /\ thread_lock = t
  /\ active_stream_thread' = NoThread
  /\ thread_lock' = Unlocked
  /\ Goto(t, AfterWaitForCompletion(t, stream_completed))
  /\ TextUnchanged
  /\ UNCHANGED <<guiFlags, command_detected, has_early_stopped,
                 stream_canceled, stream_completed, ui_queue, turns_started,
                 submitted, response_lock>>

\* Where thread t goes on when cancel_streaming returns: the turn worker
\* waits for turn_completed, the stream worker is still inside
\* handle_response_chunk
AfterCancelStreaming(t) == IF t[1] = "turn" THEN "turn_wait" ELSE "chunk_unlock"

\* cancel_streaming, llm_interface.py:179-184: thread t acquires
\* thread_lock and, if a stream thread is alive, sets stream_canceled
cancel_streaming_acquire(t) ==
  /\ PcOf(t) = "cancel_lock"
  /\ thread_lock = Unlocked
  /\ IF active_stream_thread # NoThread /\ is_alive(active_stream_thread)
     THEN /\ thread_lock' = t
          /\ stream_canceled' = TRUE
          /\ Goto(t, "cancel_wait")
     ELSE /\ thread_lock' = Unlocked
          /\ Goto(t, AfterCancelStreaming(t))
          /\ UNCHANGED stream_canceled
  /\ TextUnchanged
  /\ UNCHANGED <<guiFlags, command_detected, has_early_stopped,
                 stream_completed, active_stream_thread, ui_queue,
                 turns_started, submitted, response_lock>>

\* cancel_streaming without the timeout of line 187: the wait returns only
\* when stream_completed is set
cancel_streaming_wait_NoTimeout(t) ==
  /\ PcOf(t) = "cancel_wait"
  /\ thread_lock = t
  /\ stream_completed
  /\ IF t = StreamWorker(active_stream_thread)
     THEN /\ active_stream_thread' = NoThread
          /\ thread_lock' = Unlocked
          /\ Goto(t, AfterCancelStreaming(t))
     ELSE /\ Goto(t, "cancel_join")
          /\ UNCHANGED <<active_stream_thread, thread_lock>>
  /\ TextUnchanged
  /\ UNCHANGED <<guiFlags, command_detected, has_early_stopped,
                 stream_canceled, stream_completed, ui_queue, turns_started,
                 submitted, response_lock>>

\* cancel_streaming, lines 186-190: stream_completed.wait(timeout=2.0)
\* returns, with the event set or after the timeout; a thread that cancels
\* itself skips the join, drops the reference and releases thread_lock
cancel_streaming_wait(t) ==
  /\ PcOf(t) = "cancel_wait"
  /\ thread_lock = t
  /\ IF t = StreamWorker(active_stream_thread)
     THEN /\ active_stream_thread' = NoThread
          /\ thread_lock' = Unlocked
          /\ Goto(t, AfterCancelStreaming(t))
     ELSE /\ Goto(t, "cancel_join")
          /\ UNCHANGED <<active_stream_thread, thread_lock>>
  /\ TextUnchanged
  /\ UNCHANGED <<guiFlags, command_detected, has_early_stopped,
                 stream_canceled, stream_completed, ui_queue, turns_started,
                 submitted, response_lock>>

\* cancel_streaming, lines 191-202: join(timeout=1.0) returns, the
\* reference is dropped and thread_lock is released
cancel_streaming_join(t) ==
  /\ PcOf(t) = "cancel_join"
  /\ thread_lock = t
  /\ active_stream_thread' = NoThread
  /\ thread_lock' = Unlocked
  /\ Goto(t, AfterCancelStreaming(t))
  /\ TextUnchanged
  /\ UNCHANGED <<guiFlags, command_detected, has_early_stopped,
                 stream_canceled, stream_completed, ui_queue, turns_started,
                 submitted, response_lock>>

\* run_minimind_turn, line 130: turn_completed.wait(timeout=5.0) returns,
\* with the event set or after the timeout
turn_completed_wait_timed(i) ==
  /\ turn_pc[i] = "turn_wait"
  /\ Goto(TurnWorker(i), "cleanup")
  /\ TextUnchanged
  /\ UNCHANGED <<guiFlags, command_detected, has_early_stopped, llmState,
                 ui_queue, turns_started, submitted, response_lock,
                 thread_lock>>

\* run_minimind_turn, lines 132-136: the final cleanup
run_minimind_turn_cleanup(i) ==
  /\ turn_pc[i] = "cleanup"
  /\ turn_in_progress' = FALSE
  /\ Goto(TurnWorker(i), "done")
  /\ TextUnchanged
  /\ UNCHANGED <<stop_streaming, turn_completed, command_detected,
                 has_early_stopped, llmState, ui_queue, turns_started,
                 submitted, response_lock, thread_lock>>


\* What the stream thread finds when it reads on
LineKinds == {"chunk", "done", "end", "error"}

\* _stream_response, llm_interface.py:131-164, stream thread i reads on: it
\* sees the cancellation and leaves the loop, hands a chunk to
\* handle_response_chunk, hands the whole text to handle_response_complete
\* after the line marked done, runs out of lines, or fails and calls
\* handle_response_error, which takes no lock
stream_next_line(i, kind) ==
  /\ stream_pc[i] = "reading"
  /\ IF stream_canceled
     THEN Goto(StreamWorker(i), "completing") /\ UNCHANGED guiFlags
     ELSE IF kind = "chunk"
     THEN Goto(StreamWorker(i), "chunk_lock") /\ UNCHANGED guiFlags
     ELSE IF kind = "done"
     THEN Goto(StreamWorker(i), "complete_lock") /\ UNCHANGED guiFlags
     ELSE IF kind = "end"
     THEN Goto(StreamWorker(i), "completing") /\ UNCHANGED guiFlags
     ELSE /\ turn_in_progress' = FALSE
          /\ stop_streaming' = TRUE
          /\ turn_completed' = TRUE
          /\ Goto(StreamWorker(i), "completing")
  /\ TextUnchanged
  /\ UNCHANGED <<command_detected, has_early_stopped, llmState, ui_queue,
                 turns_started, submitted, response_lock, thread_lock>>

\* handle_response_chunk, event_handler.py:154-198: stream thread i
\* acquires response_lock; it returns at once after an earlier detection
\* or when the chunk completes no command line (detected is False), and
\* else records the detection and goes on, with the lock, to
\* cancel_streaming
handle_response_chunk_acquire(i, detected) ==
  /\ stream_pc[i] = "chunk_lock"
  /\ response_lock = Unlocked
  /\ IF ~command_detected /\ detected
     THEN /\ command_detected' = TRUE
          /\ has_early_stopped' = TRUE
          /\ stop_streaming' = TRUE
          /\ response_lock' = StreamWorker(i)
          /\ Goto(StreamWorker(i), "cancel_lock")
     ELSE /\ Goto(StreamWorker(i), "reading")
          /\ UNCHANGED <<command_detected, has_early_stopped, stop_streaming,
                         response_lock>>
  /\ TextUnchanged
  /\ UNCHANGED <<turn_in_progress, turn_completed, llmState, ui_queue,
                 turns_started, submitted, thread_lock>>

\* handle_response_chunk, lines 203-211: process_command_safely is handed
\* to the Tk loop and the with block is left
handle_response_chunk_release(i) ==
  /\ stream_pc[i] = "chunk_unlock"
  /\ response_lock = StreamWorker(i)
  /\ ui_queue' = Append(ui_queue, Task("process_command_safely", i, <<CommandText>>))
  /\ response_lock' = Unlocked
  /\ Goto(StreamWorker(i), "reading")
  /\ TextUnchanged
  /\ UNCHANGED <<guiFlags, command_detected, has_early_stopped, llmState,
                 turns_started, submitted, thread_lock>>

\* handle_response_complete, lines 237-249: stream thread i acquires
\* response_lock, returns after an early stop and else sleeps 0.2 s with
\* the lock
handle_response_complete_acquire(i) ==
  /\ stream_pc[i] = "complete_lock"
  /\ response_lock = Unlocked
  /\ IF has_early_stopped
     THEN Goto(StreamWorker(i), "completing") /\ UNCHANGED response_lock
     ELSE Goto(StreamWorker(i), "complete_sleep") /\ response_lock' = StreamWorker(i)
  /\ TextUnchanged
  /\ UNCHANGED <<guiFlags, command_detected, has_early_stopped, llmState,
                 ui_queue, turns_started, submitted, thread_lock>>

\* handle_response_complete, lines 251-270: after the sleep the fallback
\* and the stop event are handed to the Tk loop and the with block is left
handle_response_complete_release(i) ==
  /\ stream_pc[i] = "complete_sleep"
  /\ response_lock = StreamWorker(i)
  /\ ui_queue' = ui_queue \o <<Task("safe_process_full_response", i, <<CommandText>>),
                               Task("set_stop_streaming", i, NoCommand)>>
  /\ response_lock' = Unlocked
  /\ Goto(StreamWorker(i), "completing")
  /\ TextUnchanged
  /\ UNCHANGED <<guiFlags, command_detected, has_early_stopped, llmState,
                 turns_started, submitted, thread_lock>>

\* _stream_response: stream_completed.set() and the thread ends
stream_completed_set(i) ==
  /\ stream_pc[i] = "completing"
  /\ stream_completed' = TRUE
  /\ Goto(StreamWorker(i), "done")
  /\ TextUnchanged
  /\ UNCHANGED <<guiFlags, command_detected, has_early_stopped,
                 stream_canceled, active_stream_thread, ui_queue,
                 turns_started, submitted, response_lock, thread_lock>>

\* The Tk loop takes up process_command_safely, which starts with
\* wait_for_completion(timeout=2.0) (event_handler.py:217)
process_command_safely_begin ==
  /\ ui_pc = "idle"
  /\ ui_queue # <<>>
  /\ Head(ui_queue).name = "process_command_safely"
  /\ Goto(UI, "wfc_lock")
  /\ TextUnchanged
  /\ UNCHANGED <<guiFlags, command_detected, has_early_stopped, llmState,
                 ui_queue, turns_started, submitted, response_lock,
                 thread_lock>>

\* process_command_safely, lines 219-229: the command is processed, which
\* ends the turn, and turn_completed is set
process_command_safely_finish ==
  /\ ui_pc = "process"
  /\ ui_queue' = Tail(ui_queue)
  /\ submitted' = [submitted EXCEPT ![Head(ui_queue).turn] = Append(@, Head(ui_queue).action)]
  /\ turn_in_progress' = FALSE
  /\ turn_completed' = TRUE
  /\ Goto(UI, "idle")
  /\ TextUnchanged
  /\ UNCHANGED <<stop_streaming, command_detected, has_early_stopped,
                 llmState, turns_started, response_lock, thread_lock>>

\* The steps of the Tk thread
TkSteps ==
  \/ execute_minimind_turn_begin /\ UNCHANGED <<tmVars, dispVars, busVars>>
  \/ execute_minimind_turn_reset /\ UNCHANGED <<tmVars, dispVars, busVars>>
  \/ process_command_safely_begin /\ UNCHANGED <<tmVars, dispVars, busVars>>
  \/ wait_for_completion_acquire(UI) /\ UNCHANGED <<tmVars, dispVars, busVars>>
  \/ wait_for_completion_wait(UI) /\ UNCHANGED <<tmVars, dispVars, busVars>>
  \/ wait_for_completion_join(UI) /\ UNCHANGED <<tmVars, dispVars, busVars>>
  \/ process_command_safely_finish /\ UNCHANGED <<tmVars, dispVars, busVars>>
  \/ ui_pc = "idle" /\ safe_process_full_response /\ UNCHANGED <<tmVars, dispVars, busVars, lockVars>>
  \/ ui_pc = "idle" /\ set_stop_streaming /\ UNCHANGED <<tmVars, dispVars, busVars, lockVars>>

\* The steps of the run_minimind_turn worker of turn i
TurnSteps(i) ==
  \/ query_streaming_clear(i) /\ UNCHANGED <<tmVars, dispVars, busVars>>
  \/ query_streaming_start(i) /\ UNCHANGED <<tmVars, dispVars, busVars>>
  \/ poll_loop_exit(i) /\ UNCHANGED <<tmVars, dispVars, busVars>>
  \/ wait_for_completion_acquire(TurnWorker(i)) /\ UNCHANGED <<tmVars, dispVars, busVars>>
  \/ wait_for_completion_wait(TurnWorker(i)) /\ UNCHANGED <<tmVars, dispVars, busVars>>
  \/ wait_for_completion_join(TurnWorker(i)) /\ UNCHANGED <<tmVars, dispVars, busVars>>
  \/ cancel_streaming_acquire(TurnWorker(i)) /\ UNCHANGED <<tmVars, dispVars, busVars>>
  \/ cancel_streaming_wait(TurnWorker(i)) /\ UNCHANGED <<tmVars, dispVars, busVars>>
  \/ cancel_streaming_join(TurnWorker(i)) /\ UNCHANGED <<tmVars, dispVars, busVars>>
  \/ turn_completed_wait_timed(i) /\ UNCHANGED <<tmVars, dispVars, busVars>>
  \/ run_minimind_turn_cleanup(i) /\ UNCHANGED <<tmVars, dispVars, busVars>>

\* The steps of the _stream_response worker of turn i
StreamSteps(i) ==
  \/ \E kind \in LineKinds : stream_next_line(i, kind) /\ UNCHANGED <<tmVars, dispVars, busVars>>
  \/ \E detected \in BOOLEAN :
       handle_response_chunk_acquire(i, detected) /\ UNCHANGED <<tmVars, dispVars, busVars>>
  \/ cancel_streaming_acquire(StreamWorker(i)) /\ UNCHANGED <<tmVars, dispVars, busVars>>
  \/ cancel_streaming_wait(StreamWorker(i)) /\ UNCHANGED <<tmVars, dispVars, busVars>>
  \/ cancel_streaming_join(StreamWorker(i)) /\ UNCHANGED <<tmVars, dispVars, busVars>>
  \/ handle_response_chunk_release(i) /\ UNCHANGED <<tmVars, dispVars, busVars>>
  \/ handle_response_complete_acquire(i) /\ UNCHANGED <<tmVars, dispVars, busVars>>
  \/ handle_response_complete_release(i) /\ UNCHANGED <<tmVars, dispVars, busVars>>
  \/ stream_completed_set(i) /\ UNCHANGED <<tmVars, dispVars, busVars>>

NextLocks == TkSteps \/ (\E i \in LockTurns : TurnSteps(i)) \/ (\E i \in LockTurns : StreamSteps(i))

\* Every thread that can take a step is scheduled again, and a timeout
\* that has been set runs out
SpecLocks ==
  /\ Init /\ [][NextLocks]_vars
  /\ WF_vars(TkSteps)
  /\ \A i \in LockTurns : WF_vars(TurnSteps(i)) /\ WF_vars(StreamSteps(i))


\* Thread t stands in front of "with self.response_lock"
WantsResponseLock(t) == PcOf(t) \in {"reset_lock", "chunk_lock", "complete_lock"}

\* Thread t stands in front of "with self.thread_lock"
WantsThreadLock(t) == PcOf(t) \in {"start_lock", "wfc_lock", "cancel_lock"}

\* Thread t is inside stream_completed.wait, Thread.join or
\* turn_completed.wait
AtTimedWait(t) == PcOf(t) \in {"wfc_wait", "wfc_join", "cancel_wait", "cancel_join", "turn_wait"}

\* The steps of thread t
ThreadSteps(t) ==
  IF t = UI THEN TkSteps
  ELSE IF t[1] = "turn" THEN TurnSteps(t[2])
  ELSE StreamSteps(t[2])

\* No thread holds response_lock and waits for thread_lock while another
\* thread holds thread_lock and waits for response_lock
NoCircularWait ==
  \A a \in LockThreads, b \in LockThreads :
    ~(/\ a # b
      /\ response_lock = a /\ WantsThreadLock(a)
      /\ thread_lock = b /\ WantsResponseLock(b))

\* A thread inside a wait on stream_completed, on a join or on
\* turn_completed can return, whether or not the event has been set
TimedWaitsReturn == \A t \in LockThreads : AtTimedWait(t) => ENABLED ThreadSteps(t)

\* Thread t can take a step, or it waits for thread_lock and the holder of
\* that lock can take a step
CanRun(t) ==
  \/ ENABLED ThreadSteps(t)
  \/ WantsThreadLock(t) /\ thread_lock # Unlocked /\ ENABLED ThreadSteps(thread_lock)

\* A thread that waits for a lock waits for a thread that can run
HoldersCanRun ==
  \A t \in LockThreads :
    /\ (WantsThreadLock(t) /\ thread_lock # Unlocked) => ENABLED ThreadSteps(thread_lock)
    /\ (WantsResponseLock(t) /\ response_lock # Unlocked) => CanRun(response_lock)

\* C39: the stream workers, the turn workers and the Tk callbacks never
\* reach a deadlock: there is no circular wait between response_lock and
\* thread_lock, every wait on stream_completed, on a thread join and on
\* turn_completed returns after its timeout at the latest, a thread that
\* waits for a lock waits for a thread that can run, and every lock that is
\* held is released again.
C39_NoDeadlock ==
  /\ [](NoCircularWait /\ TimedWaitsReturn /\ HoldersCanRun)
  /\ (thread_lock # Unlocked) ~> (thread_lock = Unlocked)
  /\ (response_lock # Unlocked) ~> (response_lock = Unlocked)

\* A stream worker has detected a command and, holding response_lock,
\* waits inside cancel_streaming for thread_lock, which a turn worker
\* holds inside wait_for_completion
C39_Witness ==
  \E i \in LockTurns, j \in LockTurns :
    /\ response_lock = StreamWorker(i)
    /\ stream_pc[i] = "cancel_lock"
    /\ thread_lock = TurnWorker(j)
    /\ turn_pc[j] = "wfc_wait"

====
